---- MODULE Spec2Model ----
(***************************************************************************)
(* A model of the podcast pipeline of execution/reddit_analyzer:           *)
(*   - the sentence-aware segmenter (semantic_segmentation.py),            *)
(*   - the batch synthesis scheduler and its choice of a voice             *)
(*     (synthesize_podcast_audio.py),                                      *)
(*   - the analysis with its retries (run_graph.py, analyze_ideas.py),     *)
(*   - the store of collected posts (collector.py),                        *)
(*   - the assembly of an episode (audio_postproduction.py),               *)
(*   - the segments of a whole script (create_segments), the parsing of a  *)
(*     report into a script and the query of the recent posts of a         *)
(*     category (run_graph.py, analyze_ideas.py),                          *)
(*   - the per-category pipeline and its driver, from the import of the    *)
(*     module and the collection on, on an empty disk and on one that      *)
(*     earlier runs have written to (run_graph.py).                        *)
(* Each component has its own specification over its own variables; the    *)
(* variables of the other components stay at their initial values.         *)
(***************************************************************************)
EXTENDS Integers, Sequences, FiniteSets, TLC

(***************************************************************************)
(* State                                                                   *)
(***************************************************************************)
\* semantic_chunking: its arguments, locals and position.
VARIABLES seg_text, seg_max_chars, seg_sentences, seg_k,
          seg_current_chunk, seg_chunks, seg_pc

segVars == <<seg_text, seg_max_chars, seg_sentences, seg_k,
             seg_current_chunk, seg_chunks, seg_pc>>

\* synthesize_multiple_segments: its arguments, locals and position;
\* syn_started and syn_errors record the calls made and the errors printed,
\* syn_calls the outcomes of the client calls made for each segment.
VARIABLES syn_n, syn_max_concurrent, syn_i, syn_running, syn_batch_results,
          syn_completion, syn_generated_files, syn_started, syn_errors, syn_pc,
          syn_calls

synVars == <<syn_n, syn_max_concurrent, syn_i, syn_running, syn_batch_results,
             syn_completion, syn_generated_files, syn_started, syn_errors, syn_pc,
             syn_calls>>

\* run_graph.py, main and process_category.
\*   cfg            the settings read at import and from config.json, and
\*                  whether the key and the two configuration files exist;
\*                  subreddits holds the category of each configured subreddit
\*   categories     collect_run["categories"], cat_idx the position of main's loop
\*   pc             the statement of main / process_category to run next
\*   state          the branch state dictionary of the category being processed
\*   stdout         the banners printed so far, of the collection and of
\*                  the stages
\*   files          the report, script, segments and episode files on disk
\*                  that carry today's date, or none (the report)
\*   segments_len   per category, the number of entries of its segments file
\*   raw_clips      per category, the number of files segment_NNN.mp3 in its raw directory
\*   episode_clips  per category, the number of clips joined into its episode
\*   tts_*          the synthesis calls of the running gather: waiting for a
\*                  worker thread, running in one, finished
\*   email_result, upload_result, uploaded   what the delivery steps of the
\*                  category being processed have done
\*   cat_status     per category, how its process_category call ended
\*   exc            the exception that left main, if any
\*   analysis       the text run_analysis returned for the category being
\*                  processed, which is the content of its report file
VARIABLES cfg, categories, cat_idx, pc, state, stdout, files, segments_len,
          raw_clips, episode_clips, tts_queued, tts_running, tts_done,
          email_result, upload_result, uploaded, cat_status, exc, analysis

pipeVars == <<cfg, categories, cat_idx, pc, state, stdout, files, segments_len,
              raw_clips, episode_clips, tts_queued, tts_running, tts_done,
              email_result, upload_result, uploaded, cat_status, exc, analysis>>

\* run_analysis: its arguments, the loop variable attempt, what it has done
\* so far (calls of the provider, their outcomes, sleeps), the seconds it
\* has slept, its return value and its position.
VARIABLES an_posts, an_category, an_attempt, an_events, an_slept, an_result,
          an_pc

anVars == <<an_posts, an_category, an_attempt, an_events, an_slept, an_result,
            an_pc>>

\* save_posts: the rows of the table posts, the posts being saved and the
\* position in them, new_count, the number of batches saved so far, the
\* inserts of this batch (id, raised), and the position.
VARIABLES db_rows, db_batch, db_k, db_new_count, db_batches, db_log, db_pc

dbVars == <<db_rows, db_batch, db_k, db_new_count, db_batches, db_log, db_pc>>

\* The assembly of an episode.
\*   ap_mode    the function called: create_episode_audio, apply_ducking on
\*              its own, or audio_postproduction_node
\*   ap_clips   the lengths of the clips, ap_config the effects settings
\*   ap_voice   len(voice_track); ap_bed_in, ap_bed the length of the bed
\*              as handed to apply_ducking and as it is now
\*   ap_zones   the lengths of music_intro, music_body, music_outro
\*   ap_music   len(final_music); ap_mix the mix: its length and how much
\*              of the voice track it holds
\*   ap_steps   the steps taken so far, ap_pc the position
VARIABLES ap_mode, ap_clips, ap_config, ap_voice, ap_bed_in, ap_bed, ap_zones,
          ap_music, ap_mix, ap_steps, ap_pc

apVars == <<ap_mode, ap_clips, ap_config, ap_voice, ap_bed_in, ap_bed, ap_zones,
            ap_music, ap_mix, ap_steps, ap_pc>>

\* Voice selection: the podcast configuration, the speaker of a segment,
\* and the voice the scheduler and the pipeline's node choose for it.
VARIABLES vc_config, vc_speaker, vc_scheduler_voice, vc_node_voice

vcVars == <<vc_config, vc_speaker, vc_scheduler_voice, vc_node_voice>>

\* create_segments: its arguments, the list all_content, the position in
\* it, the list final_segments and the position in the function.
VARIABLES cs_script, cs_max_chars, cs_all_content, cs_k, cs_final_segments,
          cs_pc

csVars == <<cs_script, cs_max_chars, cs_all_content, cs_k, cs_final_segments,
            cs_pc>>

\* The parsing of the report by generate_podcast_script_node: the lines of
\* the report, the normalization rules of the configuration, the position
\* in the lines, current_speaker, the list segments and the position.
VARIABLES sc_lines, sc_rules, sc_k, sc_current_speaker, sc_segments, sc_pc

scVars == <<sc_lines, sc_rules, sc_k, sc_current_speaker, sc_segments, sc_pc>>

\* The query of the recent posts: config["subreddits"], the rows of the
\* table posts from the newest on, the arguments limit and category, and
\* what the pipeline's and the standalone analyzer's function return.
VARIABLES q_config, q_rows, q_limit, q_category, q_pipeline, q_analyzer, q_pc

qVars == <<q_config, q_rows, q_limit, q_category, q_pipeline, q_analyzer, q_pc>>

vars == <<segVars, synVars, pipeVars, anVars, dbVars, apVars, vcVars, csVars, scVars, qVars>>

\* What an action of one component leaves alone: the other components.
otherThanSeg == <<synVars, pipeVars, anVars, dbVars, apVars, vcVars, csVars, scVars, qVars>>
otherThanSyn == <<segVars, pipeVars, anVars, dbVars, apVars, vcVars, csVars, scVars, qVars>>
otherThanPipe == <<segVars, synVars, anVars, dbVars, apVars, vcVars, csVars, scVars, qVars>>
otherThanAn == <<segVars, synVars, pipeVars, dbVars, apVars, vcVars, csVars, scVars, qVars>>
otherThanDb == <<segVars, synVars, pipeVars, anVars, apVars, vcVars, csVars, scVars, qVars>>
otherThanAp == <<segVars, synVars, pipeVars, anVars, dbVars, vcVars, csVars, scVars, qVars>>
otherThanVc == <<segVars, synVars, pipeVars, anVars, dbVars, apVars, csVars, scVars, qVars>>
otherThanPipeAndAn == <<segVars, synVars, dbVars, apVars, vcVars, csVars, scVars, qVars>>
otherThanQ == <<segVars, synVars, pipeVars, anVars, dbVars, apVars, vcVars, csVars, scVars>>
otherThanSc == <<segVars, synVars, pipeVars, anVars, dbVars, apVars, vcVars, csVars, qVars>>
otherThanCs == <<segVars, synVars, pipeVars, anVars, dbVars, apVars, vcVars, scVars, qVars>>

(***************************************************************************)
(* Strings are sequences of one-character strings.                         *)
(***************************************************************************)
SP == " "
DOT == "."

RECURSIVE lstrip(_)
lstrip(s) ==
    IF s # <<>> /\ Head(s) = SP THEN lstrip(Tail(s)) ELSE s

RECURSIVE rstrip(_)
rstrip(s) ==
    IF s # <<>> /\ s[Len(s)] = SP THEN rstrip(SubSeq(s, 1, Len(s) - 1)) ELSE s

\* str.strip(): leading and trailing whitespace removed.
strip(s) == lstrip(rstrip(s))

RECURSIVE SkipSpaces(_, _)
SkipSpaces(text, p) ==
    IF p <= Len(text) /\ text[p] = SP THEN SkipSpaces(text, p + 1) ELSE p

\* nltk.sent_tokenize: a sentence ends at a full stop that is followed by
\* whitespace; the whitespace between two sentences belongs to neither; the
\* last sentence is right-stripped and an empty one is not returned.
RECURSIVE SentTokenizeFrom(_, _, _)
SentTokenizeFrom(text, start, p) ==
    IF p > Len(text)
    THEN LET last == rstrip(SubSeq(text, start, Len(text)))
         IN  IF last = <<>> THEN <<>> ELSE <<last>>
    ELSE IF text[p] = DOT /\ p < Len(text) /\ text[p + 1] = SP
         THEN LET nxt == SkipSpaces(text, p + 1)
              IN  <<SubSeq(text, start, p)>> \o SentTokenizeFrom(text, nxt, nxt)
         ELSE SentTokenizeFrom(text, start, p + 1)

sent_tokenize(text) == SentTokenizeFrom(text, 1, 1)

(***************************************************************************)
(* Input texts of the segmenter.                                           *)
(***************************************************************************)
MaxSentences == 3
MaxSentenceLen == 5
MaxMaxChars == 15

StringsUpTo(S, n) == UNION {[1..k -> S] : k \in 0..n}

\* Sentences as the tokenizer returns them: a run of letters closed by one
\* full stop, and one sentence of two words with an inner blank.
SentenceSet ==
    {[i \in 1..k |-> "a"] \o <<DOT>> : k \in 0..(MaxSentenceLen - 1)}
        \cup {<<"a", SP, "a", DOT>>}

RECURSIVE JoinSentences(_)
JoinSentences(ss) ==
    IF ss = <<>> THEN <<>>
    ELSE IF Len(ss) = 1 THEN ss[1]
    ELSE ss[1] \o <<SP>> \o JoinSentences(Tail(ss))

\* "Phrase un. Phrase deux. Phrase trois."
PhraseUn == <<"P", "h", "r", "a", "s", "e", SP, "u", "n", DOT>>
PhraseDeux == <<"P", "h", "r", "a", "s", "e", SP, "d", "e", "u", "x", DOT>>
PhraseTrois == <<"P", "h", "r", "a", "s", "e", SP, "t", "r", "o", "i", "s", DOT>>
PhraseText == JoinSentences(<<PhraseUn, PhraseDeux, PhraseTrois>>)

\* A text of whitespace only.
BlankText == <<SP>>

TextSet ==
    {JoinSentences(ss) : ss \in StringsUpTo(SentenceSet, MaxSentences)}
        \cup {PhraseText, BlankText}

(***************************************************************************)
(* semantic_chunking(text, max_chars)                                      *)
(***************************************************************************)
\* The predictive length check of the packing loop.
FitsOffByOne(current_chunk, sentence, max_chars) ==
    Len(current_chunk) + Len(sentence) <= max_chars + 1

\* The length check with < in place of <=.
FitsStrict(current_chunk, sentence, max_chars) ==
    Len(current_chunk) + Len(sentence) + 1 < max_chars

\* The length check that leaves room for one separator more.
FitsWithSpare(current_chunk, sentence, max_chars) ==
    Len(current_chunk) + Len(sentence) + 2 <= max_chars

Fits(current_chunk, sentence, max_chars) ==
    Len(current_chunk) + Len(sentence) + 1 <= max_chars

\* current_chunk += sentence + " "
ExtendChunkNoSeparator(current_chunk, sentence) ==
    current_chunk \o sentence

ExtendChunk(current_chunk, sentence) ==
    current_chunk \o sentence \o <<SP>>

\* The chunk appended as it is, with the separator at its end.
CloseChunkNoStrip(chunks, current_chunk) ==
    Append(chunks, current_chunk)

\* chunks.append(current_chunk.strip())
CloseChunk(chunks, current_chunk) ==
    Append(chunks, strip(current_chunk))

SegInit ==
    /\ seg_text \in TextSet
    /\ seg_max_chars \in 1..MaxMaxChars
    /\ seg_sentences = <<>>
    /\ seg_k = 0
    /\ seg_current_chunk = <<>>
    /\ seg_chunks = <<>>
    /\ seg_pc = "tokenize"

SegQuiet ==
    /\ seg_text = <<>>
    /\ seg_max_chars = 1
    /\ seg_sentences = <<>>
    /\ seg_k = 0
    /\ seg_current_chunk = <<>>
    /\ seg_chunks = <<>>
    /\ seg_pc = "idle"

\* sentences = nltk.sent_tokenize(text); chunks = []; current_chunk = ""
SegTokenize ==
    /\ seg_pc = "tokenize"
    /\ seg_sentences' = sent_tokenize(seg_text)
    /\ seg_k' = 1
    /\ seg_pc' = "loop"
    /\ UNCHANGED <<seg_text, seg_max_chars, seg_current_chunk, seg_chunks>>
    /\ UNCHANGED otherThanSeg

\* One iteration of "for sentence in sentences".
SegPack ==
    /\ seg_pc = "loop"
    /\ seg_k <= Len(seg_sentences)
    /\ LET sentence == seg_sentences[seg_k]
       IN  IF Fits(seg_current_chunk, sentence, seg_max_chars)
           THEN /\ seg_current_chunk' = ExtendChunk(seg_current_chunk, sentence)
                /\ UNCHANGED seg_chunks
           ELSE /\ seg_chunks' = CloseChunk(seg_chunks, seg_current_chunk)
                /\ seg_current_chunk' = ExtendChunk(<<>>, sentence)
    /\ seg_k' = seg_k + 1
    /\ UNCHANGED <<seg_text, seg_max_chars, seg_sentences, seg_pc>>
    /\ UNCHANGED otherThanSeg

\* After the loop: the pending chunk is flushed when it is not empty.
SegReturn ==
    /\ seg_pc = "loop"
    /\ seg_k > Len(seg_sentences)
    /\ seg_chunks' = IF seg_current_chunk # <<>>
                     THEN CloseChunk(seg_chunks, seg_current_chunk)
                     ELSE seg_chunks
    /\ seg_pc' = "done"
    /\ UNCHANGED <<seg_text, seg_max_chars, seg_sentences, seg_k, seg_current_chunk>>
    /\ UNCHANGED otherThanSeg

SegNext == SegTokenize \/ SegPack \/ SegReturn

Range(s) == {s[i] : i \in DOMAIN s}

RECURSIVE Flatten(_)
Flatten(ss) == IF ss = <<>> THEN <<>> ELSE Head(ss) \o Flatten(Tail(ss))

\* The sentences of each chunk, in chunk order.
SentencesOfChunks(chunks) ==
    Flatten([i \in DOMAIN chunks |-> sent_tokenize(chunks[i])])

\* C3: every chunk the segmenter has emitted is at most max_chars long,
\* unless it is exactly one sentence that is itself longer than max_chars.
C3_ChunkLengthBound ==
    \A i \in DOMAIN seg_chunks :
        \/ Len(seg_chunks[i]) <= seg_max_chars
        \/ /\ sent_tokenize(seg_chunks[i]) = <<seg_chunks[i]>>
           /\ seg_chunks[i] \in Range(seg_sentences)

\* The segmenter has returned a chunk of two packed sentences and an
\* oversized single-sentence chunk.
C3_Witness ==
    /\ seg_pc = "done"
    /\ \E i \in DOMAIN seg_chunks : Len(seg_chunks[i]) > seg_max_chars
    /\ \E i \in DOMAIN seg_chunks : Len(sent_tokenize(seg_chunks[i])) >= 2

\* C4: every chunk the segmenter returns is a non-empty string without
\* trailing whitespace.
C4_NoEmptyChunk ==
    seg_pc = "done" =>
        \A i \in DOMAIN seg_chunks :
            /\ seg_chunks[i] # <<>>
            /\ seg_chunks[i][Len(seg_chunks[i])] # SP

\* C5: the sentences of the returned chunks, taken in chunk order, are
\* exactly the input sentences: none lost, duplicated, reordered or cut.
C5_SentencesPreserved ==
    seg_pc = "done" => SentencesOfChunks(seg_chunks) = seg_sentences

\* The segmenter has returned several chunks, one of them an oversized
\* sentence, from an input of at least three sentences.
C5_Witness ==
    /\ seg_pc = "done"
    /\ Len(seg_sentences) >= 3
    /\ Len(seg_chunks) >= 2
    /\ \E i \in DOMAIN seg_chunks :
           /\ Len(seg_chunks[i]) > seg_max_chars
           /\ seg_chunks[i] \in Range(seg_sentences)

\* The input has no sentence: it is empty or blank.
NoSentence == sent_tokenize(seg_text) = <<>>

C26_WitnessBlank ==
    /\ seg_pc = "done"
    /\ seg_text = BlankText
    /\ Len(seg_text) < seg_max_chars
    /\ seg_chunks = <<>>

\* C27: "Phrase un. Phrase deux. Phrase trois." with max_chars = 15 is cut
\* into exactly the chunks "Phrase un.", "Phrase deux.", "Phrase trois.",
\* in that order.
C27_ThreePhrases ==
    (seg_pc = "done" /\ seg_text = PhraseText /\ seg_max_chars = 15)
        => seg_chunks = <<PhraseUn, PhraseDeux, PhraseTrois>>

C27_Witness ==
    /\ seg_pc = "done"
    /\ seg_text = PhraseText
    /\ seg_max_chars = 15
    /\ seg_sentences = <<PhraseUn, PhraseDeux, PhraseTrois>>
    /\ Len(seg_chunks) = 3

\* The text of a chunk: its sentences joined by one blank.
JoinedText(current, sentence) ==
    IF current = <<>> THEN sentence ELSE current \o <<SP>> \o sentence

\* The greedy packer as C30 words it: the sentence joins when
\* len(current chunk text) + len(sentence) + 1 <= max_chars, else the
\* current chunk is closed and the sentence starts the next one.
RECURSIVE PackByChunkText(_, _, _, _)
PackByChunkText(sentences, k, current, max_chars) ==
    IF k > Len(sentences)
    THEN IF current # <<>> THEN <<current>> ELSE <<>>
    ELSE IF Len(current) + Len(sentences[k]) + 1 <= max_chars
         THEN PackByChunkText(sentences, k + 1,
                              JoinedText(current, sentences[k]), max_chars)
         ELSE <<current>> \o PackByChunkText(sentences, k + 1, sentences[k],
                                             max_chars)

\* The greedy packer that counts the separator: the sentence joins when the
\* chunk text it makes is shorter than max_chars.
RECURSIVE PackShorterThan(_, _, _, _)
PackShorterThan(sentences, k, current, max_chars) ==
    IF k > Len(sentences)
    THEN IF current # <<>> THEN <<current>> ELSE <<>>
    ELSE IF Len(JoinedText(current, sentences[k])) < max_chars
         THEN PackShorterThan(sentences, k + 1,
                              JoinedText(current, sentences[k]), max_chars)
         ELSE <<current>> \o PackShorterThan(sentences, k + 1, sentences[k],
                                             max_chars)

\* C30 as stated: the chunks are those of the packer that joins a sentence
\* when len(current chunk text) + len(sentence) + 1 <= max_chars, so that
\* two 5-character sentences with max_chars = 11 make one chunk.
C30_GreedyPackerByChunkText ==
    seg_pc = "done" =>
        seg_chunks = PackByChunkText(seg_sentences, 1, <<>>, seg_max_chars)

\* C30: the chunks are those of the greedy packer that joins a sentence to
\* the current chunk exactly when the chunk text that results, its
\* sentences joined by one blank, is shorter than max_chars, and otherwise
\* closes the current chunk and starts the next one with the sentence: two
\* 5-character sentences make one 11-character chunk with max_chars = 12
\* and two chunks with max_chars = 11.
C30_GreedyPackerShorterThan ==
    seg_pc = "done" =>
        seg_chunks = PackShorterThan(seg_sentences, 1, <<>>, seg_max_chars)

FiveChars == <<"a", "a", "a", "a", DOT>>

\* Two 5-character sentences came back as one 11-character chunk with
\* max_chars = 12.
C30_Witness ==
    /\ seg_pc = "done"
    /\ seg_sentences = <<FiveChars, FiveChars>>
    /\ seg_max_chars = 12
    /\ Len(seg_chunks) = 1
    /\ Len(seg_chunks[1]) = 11

(***************************************************************************)
(* semantic_segmentation.py: create_segments(podcast_script, max_chars)    *)
(***************************************************************************)
MaxScriptSentences == 2
MaxScriptSegments == 2
MaxScriptChars == 6

\* The texts of a script: nothing, or some short sentences.
ScriptTexts ==
    {JoinSentences(ss) : ss \in StringsUpTo({<<"a", DOT>>}, MaxScriptSentences)}

\* podcast_script["segments"]
ScriptSegments == [content : ScriptTexts, speaker : {"HOST", "EXPERT"}]

PodcastScripts ==
    [intro : ScriptTexts,
     segments : StringsUpTo(ScriptSegments, MaxScriptSegments),
     outro : ScriptTexts]

\* semantic_chunking as a function: the loop over the sentences, then the
\* flush of the pending chunk.
RECURSIVE ChunkingFrom(_, _, _, _, _)
ChunkingFrom(sentences, k, current_chunk, chunks, max_chars) ==
    IF k > Len(sentences)
    THEN IF current_chunk # <<>> THEN CloseChunk(chunks, current_chunk) ELSE chunks
    ELSE IF Fits(current_chunk, sentences[k], max_chars)
         THEN ChunkingFrom(sentences, k + 1,
                           ExtendChunk(current_chunk, sentences[k]), chunks,
                           max_chars)
         ELSE ChunkingFrom(sentences, k + 1, ExtendChunk(<<>>, sentences[k]),
                           CloseChunk(chunks, current_chunk), max_chars)

semantic_chunking(text, max_chars) ==
    ChunkingFrom(sent_tokenize(text), 1, <<>>, <<>>, max_chars)

\* The segments one entry of all_content adds to final_segments: the intro
\* and the outro as they are, the main content chunk by chunk.
EntrySegments(content, max_chars) ==
    IF content.type \in {"intro", "outro"}
    THEN <<content>>
    ELSE LET chunks == semantic_chunking(content.content, max_chars)
         IN  [j \in 1..Len(chunks) |->
                 [content |-> strip(chunks[j]), speaker |-> content.speaker,
                  type |-> "main"]]

CsInit ==
    /\ cs_script \in PodcastScripts
    /\ cs_max_chars \in 1..MaxScriptChars
    /\ cs_all_content = <<>>
    /\ cs_k = 0
    /\ cs_final_segments = <<>>
    /\ cs_pc = "collect"

CsQuiet ==
    /\ cs_script = [intro |-> <<>>, segments |-> <<>>, outro |-> <<>>]
    /\ cs_max_chars = 1
    /\ cs_all_content = <<>>
    /\ cs_k = 0
    /\ cs_final_segments = <<>>
    /\ cs_pc = "idle"

\* all_content: the intro when there is one, the segments of the script,
\* the outro when there is one.
CsCollect ==
    /\ cs_pc = "collect"
    /\ cs_all_content' =
          (IF cs_script.intro # <<>>
           THEN <<[content |-> cs_script.intro, speaker |-> "HOST",
                   type |-> "intro"]>>
           ELSE <<>>)
          \o [i \in 1..Len(cs_script.segments) |->
                 [content |-> cs_script.segments[i].content,
                  speaker |-> cs_script.segments[i].speaker, type |-> "main"]]
          \o (IF cs_script.outro # <<>>
              THEN <<[content |-> cs_script.outro, speaker |-> "HOST",
                      type |-> "outro"]>>
              ELSE <<>>)
    /\ cs_k' = 1
    /\ cs_pc' = "chunk"
    /\ UNCHANGED <<cs_script, cs_max_chars, cs_final_segments>>
    /\ UNCHANGED otherThanCs

\* One iteration of "for content in all_content".
CsChunk ==
    /\ cs_pc = "chunk"
    /\ cs_k <= Len(cs_all_content)
    /\ cs_final_segments' =
          cs_final_segments \o EntrySegments(cs_all_content[cs_k], cs_max_chars)
    /\ cs_k' = cs_k + 1
    /\ UNCHANGED <<cs_script, cs_max_chars, cs_all_content, cs_pc>>
    /\ UNCHANGED otherThanCs

\* return final_segments
CsReturn ==
    /\ cs_pc = "chunk"
    /\ cs_k > Len(cs_all_content)
    /\ cs_pc' = "done"
    /\ UNCHANGED <<cs_script, cs_max_chars, cs_all_content, cs_k,
                   cs_final_segments>>
    /\ UNCHANGED otherThanCs

CsNext == CsCollect \/ CsChunk \/ CsReturn

\* C32: every segment create_segments returns, the intro and the outro
\* included, is at most max_chars long, unless it is one sentence that is
\* itself longer than max_chars.
C32_SegmentLengthBound ==
    cs_pc = "done" =>
        \A i \in DOMAIN cs_final_segments :
            \/ Len(cs_final_segments[i].content) <= cs_max_chars
            \/ sent_tokenize(cs_final_segments[i].content)
                  = <<cs_final_segments[i].content>>

\* The segments of the main content keep that bound.
MainSegmentLengthBound ==
    \A i \in DOMAIN cs_final_segments :
        cs_final_segments[i].type = "main" =>
            \/ Len(cs_final_segments[i].content) <= cs_max_chars
            \/ sent_tokenize(cs_final_segments[i].content)
                  = <<cs_final_segments[i].content>>

\* The function and the loop of semantic_chunking give the same chunks.
ChunkingAsFunction ==
    seg_pc = "done" => seg_chunks = semantic_chunking(seg_text, seg_max_chars)

(***************************************************************************)
(* synthesize_multiple_segments(segments, config, max_concurrent)          *)
(* The blocking client call lets the event loop run the coroutines of a    *)
(* batch one after the other; the model lets the calls of a batch resolve  *)
(* in every order, which includes that one.                                *)
(***************************************************************************)
MaxSegments == 4
MaxMaxConcurrent == 3

\* The value synthesize_segment returns: the clip's file name, which carries
\* the segment index, or None after an error.
None == <<>>
TempSegmentFile(index) == <<"temp_segment", index>>
FileIndex(filename) == filename[2]

Min(a, b) == IF a <= b THEN a ELSE b

Max(a, b) == IF a >= b THEN a ELSE b

\* The slice without its upper end: segments[i:], every remaining segment.
BatchIndicesToTheEnd(i, n, max_concurrent) == i..(n - 1)

\* The segment indices of the batch that starts at i: segments[i : i + max_concurrent].
BatchIndices(i, n, max_concurrent) == i..(Min(i + max_concurrent, n) - 1)

\* asyncio.gather: the results in the order of the awaitables passed, whatever
\* the order in which they completed.
GatherByCompletion(first, last, results, completion) ==
    [j \in 1..Len(completion) |-> results[completion[j]]]

Gather(first, last, results, completion) ==
    [j \in 1..(last - first + 1) |-> results[first + j - 1]]

\* [f for f in batch_results if f is not None]
DropNone(batch_results) == SelectSeq(batch_results, LAMBDA f : f # None)

\* Speech-synthesis calls started and not yet resolved.
SynInFlight == Cardinality(syn_running)

\* The value the scheduler returns: "return generated_files", the list of
\* file names and nothing else.
SynReturnValue == [generated_files |-> syn_generated_files]

SynInit ==
    /\ syn_n \in 0..MaxSegments
    /\ syn_max_concurrent \in 1..MaxMaxConcurrent
    /\ syn_i = 0
    /\ syn_running = {}
    /\ syn_batch_results = <<>>
    /\ syn_completion = <<>>
    /\ syn_generated_files = <<>>
    /\ syn_started = <<>>
    /\ syn_errors = {}
    /\ syn_calls = <<>>
    /\ syn_pc = "loop"

SynQuiet ==
    /\ syn_n = 0
    /\ syn_max_concurrent = 1
    /\ syn_i = 0
    /\ syn_running = {}
    /\ syn_batch_results = <<>>
    /\ syn_completion = <<>>
    /\ syn_generated_files = <<>>
    /\ syn_started = <<>>
    /\ syn_errors = {}
    /\ syn_calls = <<>>
    /\ syn_pc = "idle"

\* One iteration of "for i in range(0, len(segments), max_concurrent)" up to
\* the gather: a coroutine per segment of the batch, all handed to gather.
SynDispatch ==
    /\ syn_pc = "loop"
    /\ syn_i < syn_n
    /\ LET batch == BatchIndices(syn_i, syn_n, syn_max_concurrent)
       IN  /\ syn_running' = batch
           /\ syn_started' = syn_started \o
                  [j \in 1..Cardinality(batch) |-> syn_i + j - 1]
    /\ syn_batch_results' = <<>>
    /\ syn_completion' = <<>>
    /\ syn_pc' = "gather"
    /\ UNCHANGED <<syn_n, syn_max_concurrent, syn_i, syn_generated_files, syn_errors>>
    /\ UNCHANGED syn_calls
    /\ UNCHANGED otherThanSyn

\* What client.audio.speech.create followed by stream_to_file does: it
\* writes the clip, or raises a rate-limit or quota error, or another error.
SpeechOutcomes == {"response", "RateLimitError", "APIError"}

\* The errors of the provider that pass with time.
TransientErrors == {"RateLimitError"}

\* synthesize_segment(segment, config, client, index) resolves after its
\* one client call: the file name, or None when the call raised (the error
\* is printed).
SynResolve ==
    /\ syn_pc = "gather"
    /\ \E index \in syn_running :
          /\ syn_running' = syn_running \ {index}
          /\ syn_completion' = Append(syn_completion, index)
          /\ \E outcome \in SpeechOutcomes :
                /\ syn_calls' = (index :> <<outcome>>) @@ syn_calls
                /\ IF outcome = "response"
                   THEN /\ syn_batch_results' =
                             (index :> TempSegmentFile(index)) @@ syn_batch_results
                        /\ UNCHANGED syn_errors
                   ELSE /\ syn_batch_results' = (index :> None) @@ syn_batch_results
                        /\ syn_errors' = syn_errors \cup {index}
    /\ UNCHANGED <<syn_n, syn_max_concurrent, syn_i, syn_generated_files,
                   syn_started, syn_pc>>
    /\ UNCHANGED otherThanSyn

\* gather returns once every call of the batch has resolved; the files of
\* the batch are appended and the loop goes on with the next batch.
SynCollect ==
    /\ syn_pc = "gather"
    /\ syn_running = {}
    /\ LET last == Min(syn_i + syn_max_concurrent, syn_n) - 1
           batch_results == Gather(syn_i, last, syn_batch_results, syn_completion)
       IN  syn_generated_files' = syn_generated_files \o DropNone(batch_results)
    /\ syn_i' = syn_i + syn_max_concurrent
    /\ syn_pc' = "loop"
    /\ UNCHANGED <<syn_n, syn_max_concurrent, syn_running, syn_batch_results,
                   syn_completion, syn_started, syn_errors>>
    /\ UNCHANGED syn_calls
    /\ UNCHANGED otherThanSyn

\* return generated_files
SynReturn ==
    /\ syn_pc = "loop"
    /\ syn_i >= syn_n
    /\ syn_pc' = "done"
    /\ UNCHANGED <<syn_n, syn_max_concurrent, syn_i, syn_running, syn_batch_results,
                   syn_completion, syn_generated_files, syn_started, syn_errors>>
    /\ UNCHANGED syn_calls
    /\ UNCHANGED otherThanSyn

SynNext == SynDispatch \/ SynResolve \/ SynCollect \/ SynReturn

\* ceil(n / m)
Ceil(n, m) == (n + m - 1) \div m

\* The batches gathered so far: the loop variable i grows by max_concurrent
\* with each of them.
BatchesDone == syn_i \div syn_max_concurrent

\* The calls are started once per chunk, in the order of the list, each
\* with the position of its chunk as index, and batch after batch.
OneCallPerChunk ==
    /\ Len(syn_started) <= syn_n
    /\ \A k \in DOMAIN syn_started : syn_started[k] = k - 1
    /\ BatchesDone <= Ceil(syn_n, syn_max_concurrent)
    /\ syn_pc = "loop" => Len(syn_started) = Min(syn_i, syn_n)
    /\ syn_pc = "done" =>
          /\ BatchesDone = Ceil(syn_n, syn_max_concurrent)
          /\ Len(syn_started) = syn_n
          /\ DOMAIN syn_calls = 0..(syn_n - 1)
          /\ \A index \in DOMAIN syn_calls : Len(syn_calls[index]) = 1

\* C35: for every n >= 0 and max_concurrent >= 1 the scheduler returns,
\* after exactly ceil(n / max_concurrent) batches, having started exactly
\* one synthesis call per chunk, each with the position of its chunk in
\* the list as index.
C35_BatchStructure ==
    /\ []OneCallPerChunk
    /\ <>(syn_pc = "done")

\* Four chunks with max_concurrent = 3 were synthesized in two batches.
C35_Witness ==
    /\ syn_pc = "done"
    /\ syn_n = 4
    /\ syn_max_concurrent = 3
    /\ BatchesDone = 2
    /\ syn_started = <<0, 1, 2, 3>>

\* The file list of the scheduler is in segment order.
SchedulerOrderPreserved ==
    \A a, b \in DOMAIN syn_generated_files :
        a < b => FileIndex(syn_generated_files[a]) < FileIndex(syn_generated_files[b])

\* The scheduler never has more than max_concurrent calls in flight, and
\* the calls in flight all belong to the current batch.
SchedulerBounded ==
    /\ SynInFlight <= syn_max_concurrent
    /\ syn_running \subseteq BatchIndices(syn_i, syn_n, syn_max_concurrent)
    /\ \A k \in Range(syn_started) : k < syn_i + syn_max_concurrent

\* A failed call is a None slot of its batch and stops no other call: when
\* the scheduler returns, a call was made for every segment and the files
\* returned are those of the segments whose call did not fail.
SchedulerContainsFailures ==
    syn_pc = "done" =>
        /\ Range(syn_started) = 0..(syn_n - 1)
        /\ {FileIndex(f) : f \in Range(syn_generated_files)} =
               (0..(syn_n - 1)) \ syn_errors

\* The scheduler returns, next to the files, the indices of the failed chunks.
SchedulerReturnsFailedIndices ==
    (syn_pc = "done" /\ syn_errors # {}) =>
        /\ "failed_indices" \in DOMAIN SynReturnValue
        /\ Range(SynReturnValue.failed_indices) = syn_errors

\* C8: a failed synthesis call is a failed slot, the other chunks of its
\* batch and of the later batches are still synthesized, and the scheduler
\* returns the successful clips together with the failed chunk indices.
C8_FailureContainment ==
    /\ SchedulerContainsFailures
    /\ SchedulerReturnsFailedIndices

\* C15: a synthesis call that fails with a transient error is retried, a
\* small fixed number of times, before its chunk counts as failed; a call
\* that fails with another error is not retried and fails its chunk only.
C15_TransientErrorsRetried ==
    \A index \in syn_errors :
        IF syn_calls[index][1] \in TransientErrors
        THEN Len(syn_calls[index]) >= 2
        ELSE Len(syn_calls[index]) = 1

(***************************************************************************)
(* run_graph.py: run_analysis (analyze_ideas.py: analyze_posts is the same)*)
(***************************************************************************)
\* The categories of the configured subreddits.
Categories == {"ia", "business"}

MaxPosts == 2

PostIds == {1, 2}

\* The rows get_recent_posts_for_analysis may return.
PostLists == UNION {[1..n -> PostIds] : n \in 0..MaxPosts}

\* max_retries = 3
max_retries == 3

\* time.sleep(20)
RetryDelay == 20

\* The texts run_analysis returns.
NoPostsText == "Aucun post recent trouve pour la categorie"
ReportText == "response.text"
FailedErrorText == "Analysis failed due to error"
FailedQuotaText == "Analysis failed after retries due to quota limits."

RunAnalysisResults == {NoPostsText, ReportText, FailedErrorText, FailedQuotaText}

\* What model.generate_content(prompt) followed by response.text does: it
\* returns the text, raises ResourceExhausted, or raises something else.
GenerateOutcomes == {"text", "ResourceExhausted", "Exception"}

\* The except clause that sleeps and lets the loop go on.
RetriesOnAnyError(outcome) == outcome # "text"

RetriesOn(outcome) == outcome = "ResourceExhausted"

AnInit ==
    /\ an_posts \in PostLists
    /\ an_category \in Categories
    /\ an_attempt = 0
    /\ an_events = <<>>
    /\ an_slept = 0
    /\ an_result = ""
    /\ an_pc = "start"

AnQuiet ==
    /\ an_posts = <<>>
    /\ an_category = ""
    /\ an_attempt = 0
    /\ an_events = <<>>
    /\ an_slept = 0
    /\ an_result = ""
    /\ an_pc = "idle"

\* run_analysis without its test of the posts.
AnStartWithoutEmptyTest ==
    /\ an_pc = "start"
    /\ an_pc' = "attempt"
    /\ UNCHANGED <<an_posts, an_category, an_attempt, an_events, an_slept, an_result>>
    /\ UNCHANGED otherThanAn

\* if not posts: return the fixed text; else build the prompt and the model.
AnStart ==
    /\ an_pc = "start"
    /\ IF an_posts = <<>>
       THEN /\ an_result' = NoPostsText
            /\ an_pc' = "done"
       ELSE /\ an_pc' = "attempt"
            /\ UNCHANGED an_result
    /\ UNCHANGED <<an_posts, an_category, an_attempt, an_events, an_slept>>
    /\ UNCHANGED otherThanAn

\* One iteration of "for attempt in range(max_retries)" up to the end of
\* its try statement.
AnGenerate ==
    /\ an_pc = "attempt"
    /\ an_attempt < max_retries
    /\ \E outcome \in GenerateOutcomes :
         /\ an_events' = an_events \o <<<<"call", "generate_content">>,
                                        <<"outcome", outcome>>>>
         /\ IF outcome = "text"
            THEN /\ an_result' = ReportText
                 /\ an_pc' = "done"
            ELSE IF RetriesOn(outcome)
            THEN /\ an_pc' = "sleep"
                 /\ UNCHANGED an_result
            ELSE /\ an_result' = FailedErrorText
                 /\ an_pc' = "done"
    /\ UNCHANGED <<an_posts, an_category, an_attempt, an_slept>>
    /\ UNCHANGED otherThanAn

\* time.sleep(20) in the ResourceExhausted clause, then the next iteration.
AnSleep ==
    /\ an_pc = "sleep"
    /\ an_slept' = an_slept + RetryDelay
    /\ an_events' = Append(an_events, <<"sleep", "RetryDelay">>)
    /\ an_attempt' = an_attempt + 1
    /\ an_pc' = "attempt"
    /\ UNCHANGED <<an_posts, an_category, an_result>>
    /\ UNCHANGED otherThanAn

\* The loop is over without a return: the return after it.
AnExhausted ==
    /\ an_pc = "attempt"
    /\ an_attempt >= max_retries
    /\ an_result' = FailedQuotaText
    /\ an_pc' = "done"
    /\ UNCHANGED <<an_posts, an_category, an_attempt, an_events, an_slept>>
    /\ UNCHANGED otherThanAn

AnNext ==
    \/ AnStart
    \/ AnGenerate
    \/ AnSleep
    \/ AnExhausted

\* The positions of the provider calls in what run_analysis has done.
AnCalls == {i \in DOMAIN an_events : an_events[i][1] = "call"}

AnSleeps == {i \in DOMAIN an_events : an_events[i][1] = "sleep"}

\* At most max_retries calls; a call other than the first follows a quota
\* error and one sleep of the fixed delay; any other outcome is the last
\* thing the analysis does.
AnalysisRetryBounded ==
    /\ Cardinality(AnCalls) <= max_retries
    /\ \A i \in AnCalls :
          i > 1 => /\ i >= 4
                   /\ an_events[i - 1][1] = "sleep"
                   /\ an_events[i - 2] = <<"outcome", "ResourceExhausted">>
    /\ an_slept = RetryDelay * Cardinality(AnSleeps)
    /\ \A i \in DOMAIN an_events :
          (an_events[i][1] = "outcome" /\ an_events[i][2] # "ResourceExhausted")
              => i = Len(an_events) /\ an_pc = "done"

\* C13: one analysis makes at most N = 3 text-generation calls, retries
\* only after a quota error and after the same fixed delay, ends after any
\* other error, and always terminates.
C13_BoundedAnalysisRetry ==
    /\ []AnalysisRetryBounded
    /\ <>(an_pc = "done")

\* Three calls were made, each hit the quota, and the analysis returned.
C13_Witness ==
    /\ an_pc = "done"
    /\ Cardinality(AnCalls) = max_retries
    /\ an_result = FailedQuotaText
    /\ an_slept = RetryDelay * max_retries

(***************************************************************************)
(* collector.py: save_posts (run_graph.py: collect_data_node has the same  *)
(* loop) on the table posts, whose column id is its PRIMARY KEY            *)
(***************************************************************************)
MaxBatchLen == 2
MaxBatches == 2

ItemIds == {"t3_a", "t3_b"}
Titles == {"old title", "new title"}

\* A post as collect_feed builds it: its id and the rest of the tuple.
Posts == [id : ItemIds, title : Titles]

\* The lists of posts one feed gives.
Batches == UNION {[1..n -> Posts] : n \in 0..MaxBatchLen}

\* The ids of the rows of the table.
StoredIds(rows) == {rows[i].id : i \in DOMAIN rows}

\* INSERT INTO posts without the PRIMARY KEY of the column id.
InsertWithoutPrimaryKey(rows, post) == [rows |-> Append(rows, post), raised |-> FALSE]

\* INSERT INTO posts: sqlite3.IntegrityError when a row has the id already,
\* else the row is added.
Insert(rows, post) ==
    IF post.id \in StoredIds(rows)
    THEN [rows |-> rows, raised |-> TRUE]
    ELSE [rows |-> Append(rows, post), raised |-> FALSE]

DbInit ==
    /\ db_rows = <<>>
    /\ db_batch \in Batches
    /\ db_k = 1
    /\ db_new_count = 0
    /\ db_batches = 1
    /\ db_log = <<>>
    /\ db_pc = "loop"

DbQuiet ==
    /\ db_rows = <<>>
    /\ db_batch = <<>>
    /\ db_k = 1
    /\ db_new_count = 0
    /\ db_batches = 0
    /\ db_log = <<>>
    /\ db_pc = "idle"

\* One iteration of "for post in posts": the INSERT, counted when it did
\* not raise; the IntegrityError is dropped.
DbInsert ==
    /\ db_pc = "loop"
    /\ db_k <= Len(db_batch)
    /\ LET result == Insert(db_rows, db_batch[db_k])
       IN  /\ db_rows' = result.rows
           /\ db_new_count' = IF result.raised THEN db_new_count
                                               ELSE db_new_count + 1
           /\ db_log' = Append(db_log, <<db_batch[db_k].id, result.raised>>)
    /\ db_k' = db_k + 1
    /\ UNCHANGED <<db_batch, db_batches, db_pc>>
    /\ UNCHANGED otherThanDb

\* conn.commit() and the count printed.
DbCommit ==
    /\ db_pc = "loop"
    /\ db_k > Len(db_batch)
    /\ db_pc' = "saved"
    /\ UNCHANGED <<db_rows, db_batch, db_k, db_new_count, db_batches, db_log>>
    /\ UNCHANGED otherThanDb

\* The posts of the next feed, or of the next collection run.
DbNextBatch ==
    /\ db_pc = "saved"
    /\ db_batches < MaxBatches
    /\ db_batch' \in Batches
    /\ db_k' = 1
    /\ db_new_count' = 0
    /\ db_batches' = db_batches + 1
    /\ db_log' = <<>>
    /\ db_pc' = "loop"
    /\ UNCHANGED db_rows
    /\ UNCHANGED otherThanDb

DbNext ==
    \/ DbInsert
    \/ DbCommit
    \/ DbNextBatch

\* The store holds at most one row per id.
OneRowPerId ==
    \A i, j \in DOMAIN db_rows : db_rows[i].id = db_rows[j].id => i = j

\* The count is the number of inserts of this batch that did not raise.
NewCountIsInserted ==
    db_new_count = Cardinality({i \in DOMAIN db_log : ~db_log[i][2]})

\* An insert of a stored id changes no row and no count, and the loop goes
\* on with the next post; an insert of a new id adds its row.
InsertStep ==
    (db_k' = db_k + 1) =>
        IF db_batch[db_k].id \in StoredIds(db_rows)
        THEN /\ db_rows' = db_rows
             /\ db_new_count' = db_new_count
             /\ db_pc' = "loop"
        ELSE /\ db_rows' = Append(db_rows, db_batch[db_k])
             /\ db_new_count' = db_new_count + 1

\* C16: after any sequence of inserts the store holds at most one record
\* per item id; an insert of a stored id leaves the record unchanged, is
\* not counted as new and does not stop the rest of the batch.
C16_IdempotentIngestion ==
    /\ [](OneRowPerId /\ NewCountIsInserted)
    /\ [][InsertStep]_vars

\* A batch was saved whose first post was new and whose second post had a
\* stored id and another title: one row was added, the stored one is as it
\* was, and the post after the duplicate was still handled.
C16_Witness ==
    /\ db_pc = "saved"
    /\ db_batches = 2
    /\ Len(db_batch) = 2
    /\ db_log = <<<<db_batch[1].id, FALSE>>, <<db_batch[2].id, TRUE>>>>
    /\ \E i \in DOMAIN db_rows :
          /\ db_rows[i].id = db_batch[2].id
          /\ db_rows[i].title # db_batch[2].title
    /\ db_new_count = 1

(***************************************************************************)
(* audio_postproduction.py: create_episode_audio, create_background_music  *)
(* and apply_ducking; run_graph.py: the body of audio_postproduction_node. *)
(* An audio segment is modelled by its length in milliseconds.             *)
(***************************************************************************)
MaxClips == 2
MaxClipSeconds == 5
MaxBedSeconds == 10

\* A recording of nearly ten minutes.
LongClip == 588000

\* The lengths of the clips: whole seconds, or long.
ClipLengths == {1000 * k : k \in 1..MaxClipSeconds} \cup {LongClip}

ClipLists == UNION {[1..n -> ClipLengths] : n \in 0..MaxClips}

\* The lengths of the beds handed to apply_ducking.
BedLengths == {1000 * k : k \in 0..MaxBedSeconds}

\* The values of effects.intro_duration and effects.outro_duration.
EffectDurations == {3000, 5000}

\* len(voice_track) + 5000 in the loop of apply_ducking
BedPadding == 5000

\* intro_duration = 5000
IntroDuration == 5000

\* crossfade=2000
Crossfade == 2000

\* duration = 600000
BackgroundDuration == 600000

\* duration=len(voice_track) + 10000 in audio_postproduction_node
NodeBedPadding == 10000

\* position=5000 in audio_postproduction_node
NodeVoicePosition == 5000

RECURSIVE SumSeq(_)
SumSeq(s) == IF s = <<>> THEN 0 ELSE Head(s) + SumSeq(Tail(s))

\* len(segment[a:b]): the bounds are cut to the length of the segment.
SliceLength(length, a, b) == Max(0, Min(b, length) - Min(a, length))

\* segment.append(other, crossfade): the two overlap by the crossfade, and
\* a crossfade longer than either of them raises ValueError.
AppendLength(first, second, crossfade) ==
    IF crossfade = 0 THEN [length |-> first + second, raised |-> FALSE]
    ELSE IF crossfade > first \/ crossfade > second
    THEN [length |-> 0, raised |-> TRUE]
    ELSE [length |-> first + second - crossfade, raised |-> FALSE]

\* base.overlay(voice, position): the result has the length of base, and
\* holds the part of voice that ends before base does.
Overlay(base, voice, position) ==
    [length |-> base, voice_heard |-> Max(0, Min(voice, base - position))]

\* create_background_music: three sections of a silent track, joined with
\* crossfades.
CreateBackgroundMusic(config) ==
    LET intro == SliceLength(BackgroundDuration, 0, config.intro_duration)
        main_section == SliceLength(BackgroundDuration, config.intro_duration,
                                    BackgroundDuration - config.outro_duration)
        outro == SliceLength(BackgroundDuration,
                             BackgroundDuration - config.outro_duration,
                             BackgroundDuration)
        full_background == AppendLength(intro, main_section, Crossfade)
    IN  IF full_background.raised THEN full_background
        ELSE AppendLength(full_background.length, outro, Crossfade)

\* The test of the loop with <= in place of <.
LoopsInclusive(bed, voice) == bed <= voice + BedPadding

\* The test of the loop of apply_ducking without its padding.
LoopsWithoutPadding(bed, voice) == bed < voice

\* while len(background_music) < len(voice_track) + 5000
Loops(bed, voice) == bed < voice + BedPadding

\* The steps audio_postproduction_node takes on its clips.
NodeSteps ==
    <<"concatenate", "build_bed", "overlay_voice", "normalize", "export">>

NoZones == [intro |-> 0, body |-> 0, outro |-> 0]
NoMix == [length |-> 0, voice_heard |-> 0]
DefaultEffects == [intro_duration |-> 5000, outro_duration |-> 5000]

ApInit ==
    /\ ap_mode \in {"create_episode_audio", "apply_ducking",
                    "audio_postproduction_node"}
    /\ ap_clips \in ClipLists
    /\ IF ap_mode = "create_episode_audio"
       THEN ap_config \in [intro_duration : EffectDurations,
                           outro_duration : EffectDurations]
       ELSE ap_config = DefaultEffects
    /\ IF ap_mode = "apply_ducking"
       THEN /\ ap_bed_in \in BedLengths
            /\ ap_voice = SumSeq(ap_clips)
            /\ ap_pc = "loop"
       ELSE /\ ap_bed_in = 0
            /\ ap_voice = 0
            /\ ap_pc = "concatenate"
    /\ ap_bed = ap_bed_in
    /\ ap_zones = NoZones
    /\ ap_music = 0
    /\ ap_mix = NoMix
    /\ ap_steps = <<>>

ApQuiet ==
    /\ ap_mode = ""
    /\ ap_clips = <<>>
    /\ ap_config = DefaultEffects
    /\ ap_bed_in = 0
    /\ ap_voice = 0
    /\ ap_pc = "idle"
    /\ ap_bed = 0
    /\ ap_zones = NoZones
    /\ ap_music = 0
    /\ ap_mix = NoMix
    /\ ap_steps = <<>>

\* create_episode_audio: voice_track += segment["audio"] for every segment.
ApConcatenate ==
    /\ ap_mode = "create_episode_audio"
    /\ ap_pc = "concatenate"
    /\ ap_voice' = SumSeq(ap_clips)
    /\ ap_steps' = Append(ap_steps, "concatenate")
    /\ ap_pc' = "background"
    /\ UNCHANGED <<ap_mode, ap_clips, ap_config, ap_bed_in, ap_bed, ap_zones,
                   ap_music, ap_mix>>
    /\ UNCHANGED otherThanAp

\* create_episode_audio: background_music = create_background_music(config),
\* handed to apply_ducking.
ApCreateBackgroundMusic ==
    /\ ap_pc = "background"
    /\ LET background == CreateBackgroundMusic(ap_config)
       IN  IF background.raised
           THEN /\ ap_pc' = "raised"
                /\ UNCHANGED <<ap_bed_in, ap_bed, ap_steps>>
           ELSE /\ ap_bed_in' = background.length
                /\ ap_bed' = background.length
                /\ ap_steps' = Append(ap_steps, "build_bed")
                /\ ap_pc' = "loop"
    /\ UNCHANGED <<ap_mode, ap_clips, ap_config, ap_voice, ap_zones, ap_music,
                   ap_mix>>
    /\ UNCHANGED otherThanAp

\* apply_ducking: one iteration of the loop, background_music += background_music.
ApLoop ==
    /\ ap_pc = "loop"
    /\ Loops(ap_bed, ap_voice)
    /\ ap_bed' = AppendLength(ap_bed, ap_bed, 0).length
    /\ UNCHANGED <<ap_mode, ap_clips, ap_config, ap_bed_in, ap_voice, ap_pc,
                   ap_zones, ap_music, ap_mix, ap_steps>>
    /\ UNCHANGED otherThanAp

\* apply_ducking: the loop is over; the bed is lowered by 10 dB and cut into
\* intro, body (lowered by the ducking level) and outro.
ApZones ==
    /\ ap_pc = "loop"
    /\ ~Loops(ap_bed, ap_voice)
    /\ ap_zones' =
          [intro |-> SliceLength(ap_bed, 0, IntroDuration),
           body |-> SliceLength(ap_bed, IntroDuration, ap_voice + IntroDuration),
           outro |-> SliceLength(ap_bed, ap_voice + IntroDuration, ap_bed)]
    /\ ap_steps' = ap_steps \o <<"bed_gain", "split_zones", "duck_body">>
    /\ ap_pc' = "crossfade"
    /\ UNCHANGED <<ap_mode, ap_clips, ap_config, ap_bed_in, ap_bed, ap_voice,
                   ap_music, ap_mix>>
    /\ UNCHANGED otherThanAp

\* apply_ducking: music_intro.append(music_body, crossfade=2000)
\*                           .append(music_outro, crossfade=2000)
ApCrossfade ==
    /\ ap_pc = "crossfade"
    /\ LET first == AppendLength(ap_zones.intro, ap_zones.body, Crossfade)
           final_music == IF first.raised THEN first
                          ELSE AppendLength(first.length, ap_zones.outro, Crossfade)
       IN  IF final_music.raised
           THEN /\ ap_pc' = "raised"
                /\ UNCHANGED <<ap_music, ap_steps>>
           ELSE /\ ap_music' = final_music.length
                /\ ap_steps' = Append(ap_steps, "crossfade_zones")
                /\ ap_pc' = "overlay"
    /\ UNCHANGED <<ap_mode, ap_clips, ap_config, ap_bed_in, ap_bed, ap_voice,
                   ap_zones, ap_mix>>
    /\ UNCHANGED otherThanAp

\* apply_ducking: final_music.overlay(voice_track, position=intro_duration),
\* returned to the caller.
ApOverlay ==
    /\ ap_pc = "overlay"
    /\ ap_mix' = Overlay(ap_music, ap_voice, IntroDuration)
    /\ ap_steps' = Append(ap_steps, "overlay_voice")
    /\ ap_pc' = IF ap_mode = "apply_ducking" THEN "returned" ELSE "master"
    /\ UNCHANGED <<ap_mode, ap_clips, ap_config, ap_bed_in, ap_bed, ap_voice,
                   ap_zones, ap_music>>
    /\ UNCHANGED otherThanAp

\* create_episode_audio: normalize, high_pass_filter, low_pass_filter.
ApMaster ==
    /\ ap_pc = "master"
    /\ ap_steps' = ap_steps \o <<"normalize", "high_pass_filter", "low_pass_filter">>
    /\ ap_pc' = "export"
    /\ UNCHANGED <<ap_mode, ap_clips, ap_config, ap_bed_in, ap_bed, ap_voice,
                   ap_zones, ap_music, ap_mix>>
    /\ UNCHANGED otherThanAp

\* create_episode_audio: final_audio.export(output_file, ...)
ApExport ==
    /\ ap_pc = "export"
    /\ ap_steps' = Append(ap_steps, "export")
    /\ ap_pc' = "exported"
    /\ UNCHANGED <<ap_mode, ap_clips, ap_config, ap_bed_in, ap_bed, ap_voice,
                   ap_zones, ap_music, ap_mix>>
    /\ UNCHANGED otherThanAp

\* audio_postproduction_node from its file list on: nothing without clips;
\* else the clips are joined, laid over a silent bed, normalized, exported.
ApNode ==
    /\ ap_mode = "audio_postproduction_node"
    /\ ap_pc = "concatenate"
    /\ IF ap_clips = <<>>
       THEN /\ ap_pc' = "skipped"
            /\ UNCHANGED <<ap_voice, ap_bed_in, ap_bed, ap_music, ap_mix, ap_steps>>
       ELSE LET voice_track == SumSeq(ap_clips)
                background_music == voice_track + NodeBedPadding
            IN  /\ ap_voice' = voice_track
                /\ ap_bed_in' = background_music
                /\ ap_bed' = background_music
                /\ ap_music' = background_music
                /\ ap_mix' = Overlay(background_music, voice_track, NodeVoicePosition)
                /\ ap_steps' = NodeSteps
                /\ ap_pc' = "exported"
    /\ UNCHANGED <<ap_mode, ap_clips, ap_config, ap_zones>>
    /\ UNCHANGED otherThanAp

ApNext ==
    \/ ApConcatenate
    \/ ApCreateBackgroundMusic
    \/ ApLoop
    \/ ApZones
    \/ ApCrossfade
    \/ ApOverlay
    \/ ApMaster
    \/ ApExport
    \/ ApNode

\* apply_ducking has left its loop and split the bed.
PastLoop ==
    /\ ap_mode \in {"create_episode_audio", "apply_ducking"}
    /\ ap_pc \in {"crossfade", "overlay", "master", "export", "exported",
                  "returned", "raised"}
    /\ ap_zones # NoZones

MaxDoublings == 12

\* b is b0 joined to itself again and again: b0 * 2^k.
RepeatedSelfConcatenation(b0, b) == \E k \in 0..MaxDoublings : b = b0 * (2 ^ k)

\* C17: a bed shorter than len(voice_track) + 5000 ms is extended by
\* repeated self-concatenation until it is at least that long before it is
\* split into zones; a bed that is long enough is left unchanged.
C17_BedLooped ==
    /\ ap_mode \in {"create_episode_audio", "apply_ducking"}
          => RepeatedSelfConcatenation(ap_bed_in, ap_bed)
    /\ PastLoop =>
          /\ ap_bed >= ap_voice + BedPadding
          /\ ap_bed_in >= ap_voice + BedPadding => ap_bed = ap_bed_in
          /\ ap_bed # ap_bed_in => (ap_bed \div 2) < ap_voice + BedPadding
          /\ ap_zones.intro + ap_zones.body + ap_zones.outro = ap_bed

\* A 3000 ms bed under a 10000 ms voice track was looped, to 24000 ms.
C17_Witness ==
    /\ PastLoop
    /\ ap_bed_in = 3000
    /\ ap_voice = 10000
    /\ ap_bed = 24000

\* The smallest k >= 0 for which b0 * 2^k is at least target.
LeastDoublings(b0, target) ==
    CHOOSE k \in 0..MaxDoublings :
        /\ b0 * (2 ^ k) >= target
        /\ \A j \in 0..(k - 1) : b0 * (2 ^ j) < target

\* apply_ducking is in its loop, or about to test it, on a bed of positive
\* length.
InLoop == ap_pc = "loop" /\ ap_bed_in > 0

\* The bed the loop was left with is the bed it was entered with doubled
\* the least number of times that makes it long enough.
LeastDoublingOnExit ==
    (PastLoop /\ ap_bed_in > 0) =>
        ap_bed = ap_bed_in *
                    (2 ^ LeastDoublings(ap_bed_in, ap_voice + BedPadding))

\* C36: the bed-looping loop of apply_ducking terminates for every voice
\* track and every bed of positive length, and on exit the bed length is
\* the original length times 2^k for the smallest k >= 0 for which that
\* length is >= len(voice_track) + 5000 ms.
C36_BedLoopTerminates ==
    /\ []LeastDoublingOnExit
    /\ InLoop ~> ~InLoop

\* A 1000 ms bed under a 5000 ms voice track left the loop after four
\* doublings, 16000 ms long.
C36_Witness ==
    /\ PastLoop
    /\ ap_bed_in = 1000
    /\ ap_voice = 5000
    /\ LeastDoublings(ap_bed_in, ap_voice + BedPadding) = 4
    /\ ap_bed = 16000

\* C18: the bed after zoning and crossfading is at least intro duration +
\* len(voice_track) long, and the mix holds the whole voice track.
C18_VoiceNotCutOff ==
    /\ (/\ ap_pc \in {"overlay", "master", "export", "exported", "returned"}
        /\ ap_mode \in {"create_episode_audio", "apply_ducking"})
          => ap_music >= IntroDuration + ap_voice
    /\ ap_pc \in {"master", "export", "exported", "returned"}
          => ap_mix.voice_heard = ap_voice

\* C31: for a voice track of at least one clip the looped bed is cut into
\* an intro of 5000 ms, a body of len(voice_track) ms and the rest as outro,
\* both crossfade joins complete without error, and the bed they give is
\* 4000 ms shorter than the looped bed.
C31_ZoneAssemblySucceeds ==
    (PastLoop /\ ap_clips # <<>>) =>
        /\ ap_zones.intro = IntroDuration
        /\ ap_zones.body = ap_voice
        /\ ap_zones.outro = ap_bed - IntroDuration - ap_voice
        /\ ap_pc # "raised"
        /\ ap_pc \in {"overlay", "master", "export", "exported", "returned"}
              => ap_music = ap_bed - 2 * Crossfade

\* The steps of the assembly the order of which is fixed.
AssemblyOrder ==
    <<"concatenate", "build_bed", "duck_body", "crossfade_zones",
      "overlay_voice", "normalize", "high_pass_filter", "low_pass_filter",
      "export">>

\* C19: every episode is assembled by concatenating, building the bed,
\* ducking the body, crossfading the zones, overlaying the voice, then
\* normalizing once, high-pass filtering, low-pass filtering, exporting, in
\* the standalone assembler and in the pipeline's assembly stage.
C19_AssemblyStepOrder ==
    ap_pc = "exported" =>
        SelectSeq(ap_steps, LAMBDA step : step \in Range(AssemblyOrder))
            = AssemblyOrder

\* The standalone assembler takes its steps in that order.
StandaloneAssemblyStepOrder ==
    ap_mode = "create_episode_audio" => C19_AssemblyStepOrder

(***************************************************************************)
(* Voice selection: synthesize_podcast_audio.py, get_voice_for_speaker,    *)
(* and the first lines of the node's synthesize_segment in run_graph.py    *)
(***************************************************************************)
Roles == {"HOST", "EXPERT", "GUEST"}
Speakers == Roles \cup {"NARRATOR"}
Voices == {"alloy", "nova"}

\* The values of config["multi_speaker"]: some roles, each with its voice.
VoiceMappings == UNION {[d -> [voice : Voices]] : d \in SUBSET Roles}

KeyError == "KeyError"

\* A selection that gives every role the voice of HOST.
HostVoiceForAll(speaker, config) ==
    IF "HOST" \in DOMAIN config.multi_speaker
    THEN config.multi_speaker["HOST"].voice
    ELSE KeyError

get_voice_for_speaker(speaker, config) ==
    LET voice_mapping == config.multi_speaker
    IN  IF speaker \in DOMAIN voice_mapping
        THEN voice_mapping[speaker].voice
        ELSE IF "HOST" \in DOMAIN voice_mapping
        THEN voice_mapping["HOST"].voice
        ELSE KeyError

\* voice_mapping.get(segment["speaker"], voice_mapping["HOST"])["voice"]: the
\* default is looked up before get is called.
NodeVoice(speaker, podcast_config) ==
    LET voice_mapping == podcast_config.multi_speaker
    IN  IF "HOST" \notin DOMAIN voice_mapping THEN KeyError
        ELSE IF speaker \in DOMAIN voice_mapping
        THEN voice_mapping[speaker].voice
        ELSE voice_mapping["HOST"].voice

VcInit ==
    /\ vc_config \in [multi_speaker : VoiceMappings]
    /\ vc_speaker \in Speakers
    /\ vc_scheduler_voice = ""
    /\ vc_node_voice = ""

VcQuiet ==
    /\ vc_config = [multi_speaker |-> <<>>]
    /\ vc_speaker = ""
    /\ vc_scheduler_voice = "idle"
    /\ vc_node_voice = "idle"

\* synthesize_segment of the scheduler: voice_id = get_voice_for_speaker(...)
VcSchedulerSelects ==
    /\ vc_scheduler_voice = ""
    /\ vc_scheduler_voice' = get_voice_for_speaker(vc_speaker, vc_config)
    /\ UNCHANGED <<vc_config, vc_speaker, vc_node_voice>>
    /\ UNCHANGED otherThanVc

\* synthesize_segment of the node: voice_id = voice_mapping.get(...)["voice"]
VcNodeSelects ==
    /\ vc_node_voice = ""
    /\ vc_node_voice' = NodeVoice(vc_speaker, vc_config)
    /\ UNCHANGED <<vc_config, vc_speaker, vc_scheduler_voice>>
    /\ UNCHANGED otherThanVc

VcNext ==
    \/ VcSchedulerSelects
    \/ VcNodeSelects

\* The mapping has an entry for HOST.
HasHost == "HOST" \in DOMAIN vc_config.multi_speaker

\* C20: with a mapping that contains HOST, a mapped role gets its own
\* configured voice and an unmapped role the voice of HOST, and the
\* scheduler and the pipeline's synthesis stage choose the same voice.
C20_VoiceSelection ==
    HasHost =>
        LET mapping == vc_config.multi_speaker
            configured == IF vc_speaker \in DOMAIN mapping
                          THEN mapping[vc_speaker].voice
                          ELSE mapping["HOST"].voice
        IN  /\ vc_scheduler_voice \in {"", configured}
            /\ vc_node_voice \in {"", configured}

\* Both chose for a mapped role whose voice is not the voice of HOST.
C20_Witness ==
    /\ HasHost
    /\ vc_speaker \in DOMAIN vc_config.multi_speaker
    /\ vc_config.multi_speaker[vc_speaker].voice
          # vc_config.multi_speaker["HOST"].voice
    /\ vc_scheduler_voice = vc_config.multi_speaker[vc_speaker].voice
    /\ vc_node_voice = vc_scheduler_voice

\* Both chose the voice of HOST for a role the mapping does not have.
C20_WitnessUnmapped ==
    /\ HasHost
    /\ vc_speaker \notin DOMAIN vc_config.multi_speaker
    /\ vc_scheduler_voice = vc_config.multi_speaker["HOST"].voice
    /\ vc_node_voice = vc_scheduler_voice

(***************************************************************************)
(* run_graph.py: generate_podcast_script_node, the parsing of the report   *)
(***************************************************************************)
MaxLines == 3

HASH == "#"
\* The character U+1F680 of the heading that gives the word to the host.
ROCKET == "U+1F680"

\* The lines of a report: empty, blank, plain text, the two headings that
\* are role markers (one of them indented, one with a fourth #), and a
\* heading that is none.
ReportLines ==
    {<<>>, <<SP>>, <<"x">>, <<"t", SP, "x", SP>>,
     <<HASH, HASH, SP, ROCKET, SP, "t">>,
     <<HASH, HASH, HASH, SP, "t">>,
     <<SP, HASH, HASH, HASH, HASH, SP, "x">>,
     <<HASH, HASH, SP, "t">>}

Reports == StringsUpTo(ReportLines, MaxLines)

\* content_strategy.text_normalization: no rule, or the rule "x" -> "y".
NormalizationRules == {<<>>, <<<<"x", "y">>>>}

WordChars == {"x", "y", "t"}

\* str.startswith
startswith(s, prefix) ==
    Len(s) >= Len(prefix) /\ SubSeq(s, 1, Len(prefix)) = prefix

\* re.compile(r"\b" + original + r"\b").sub(normalized, line) for a word of
\* one character: every occurrence that has no word character next to it.
SubWord(line, original, normalized) ==
    [i \in DOMAIN line |->
        IF /\ line[i] = original
           /\ (i = 1 \/ line[i - 1] \notin WordChars)
           /\ (i = Len(line) \/ line[i + 1] \notin WordChars)
        THEN normalized
        ELSE line[i]]

RECURSIVE Normalize(_, _)
Normalize(line, rules) ==
    IF rules = <<>> THEN line
    ELSE Normalize(SubWord(line, Head(rules)[1], Head(rules)[2]), Tail(rules))

\* The speaker falls back to the host after every line.
NextSpeakerResets(current_speaker, stripped_line) ==
    IF startswith(stripped_line, <<HASH, HASH, SP, ROCKET>>) THEN "HOST"
    ELSE IF startswith(stripped_line, <<HASH, HASH, HASH>>) THEN "EXPERT"
    ELSE "HOST"

\* if stripped_line.startswith("## U+1F680") ... elif stripped_line.startswith("###")
NextSpeaker(current_speaker, stripped_line) ==
    IF startswith(stripped_line, <<HASH, HASH, SP, ROCKET>>) THEN "HOST"
    ELSE IF startswith(stripped_line, <<HASH, HASH, HASH>>) THEN "EXPERT"
    ELSE current_speaker

ScInit ==
    /\ sc_lines \in Reports
    /\ sc_rules \in NormalizationRules
    /\ sc_k = 1
    /\ sc_current_speaker = "HOST"
    /\ sc_segments = <<>>
    /\ sc_pc = "loop"

ScQuiet ==
    /\ sc_lines = <<>>
    /\ sc_rules = <<>>
    /\ sc_k = 1
    /\ sc_current_speaker = "HOST"
    /\ sc_segments = <<>>
    /\ sc_pc = "idle"

\* One iteration of "for line in lines" on a line that is empty once
\* stripped: continue.
ScSkip ==
    /\ sc_pc = "loop"
    /\ sc_k <= Len(sc_lines)
    /\ strip(sc_lines[sc_k]) = <<>>
    /\ sc_k' = sc_k + 1
    /\ UNCHANGED <<sc_lines, sc_rules, sc_current_speaker, sc_segments, sc_pc>>
    /\ UNCHANGED otherThanSc

\* One iteration on any other line: the speaker is set by a role marker,
\* the line is normalized and appended as a segment.
ScSegment ==
    /\ sc_pc = "loop"
    /\ sc_k <= Len(sc_lines)
    /\ strip(sc_lines[sc_k]) # <<>>
    /\ LET stripped_line == strip(sc_lines[sc_k])
           speaker == NextSpeaker(sc_current_speaker, stripped_line)
       IN  /\ sc_current_speaker' = speaker
           /\ sc_segments' =
                 Append(sc_segments,
                        [speaker |-> speaker,
                         content |-> Normalize(stripped_line, sc_rules)])
    /\ sc_k' = sc_k + 1
    /\ UNCHANGED <<sc_lines, sc_rules, sc_pc>>
    /\ UNCHANGED otherThanSc

\* The loop is over: the segments go into the script.
ScDone ==
    /\ sc_pc = "loop"
    /\ sc_k > Len(sc_lines)
    /\ sc_pc' = "done"
    /\ UNCHANGED <<sc_lines, sc_rules, sc_k, sc_current_speaker, sc_segments>>
    /\ UNCHANGED otherThanSc

ScNext == ScSkip \/ ScSegment \/ ScDone

\* The positions of the lines that are not empty or blank, in line order.
RECURSIVE NonEmptyLinesFrom(_, _)
NonEmptyLinesFrom(lines, i) ==
    IF i > Len(lines) THEN <<>>
    ELSE IF strip(lines[i]) = <<>> THEN NonEmptyLinesFrom(lines, i + 1)
    ELSE <<i>> \o NonEmptyLinesFrom(lines, i + 1)

IsHostMarker(line) == startswith(strip(line), <<HASH, HASH, SP, ROCKET>>)
IsExpertMarker(line) == startswith(strip(line), <<HASH, HASH, HASH>>)

\* The role of line i: that of the last role marker up to it, the host
\* without any.
RoleOfLine(lines, i) ==
    LET markers == {j \in 1..i : IsHostMarker(lines[j]) \/ IsExpertMarker(lines[j])}
    IN  IF markers = {} THEN "HOST"
        ELSE LET last == CHOOSE j \in markers : \A m \in markers : m <= j
             IN  IF IsExpertMarker(lines[last]) THEN "EXPERT" ELSE "HOST"

\* C33: the script stage emits exactly one segment per line that is not
\* empty or blank, in line order, tagged HOST or EXPERT: HOST before any
\* role marker and without any, EXPERT from a "###" heading on until a
\* "## U+1F680" heading switches back to HOST.
C33_OneSegmentPerLineWithRole ==
    sc_pc = "done" =>
        LET positions == NonEmptyLinesFrom(sc_lines, 1)
        IN  /\ Len(sc_segments) = Len(positions)
            /\ \A n \in DOMAIN sc_segments :
                  /\ sc_segments[n].speaker = RoleOfLine(sc_lines, positions[n])
                  /\ sc_segments[n].content
                        = Normalize(strip(sc_lines[positions[n]]), sc_rules)

\* A report of an expert heading, a plain line and a host heading was cut
\* into the segments EXPERT, EXPERT, HOST.
C33_Witness ==
    /\ sc_pc = "done"
    /\ sc_lines = <<<<HASH, HASH, HASH, SP, "t">>, <<"x">>,
                    <<HASH, HASH, SP, ROCKET, SP, "t">>>>
    /\ [n \in DOMAIN sc_segments |-> sc_segments[n].speaker]
          = <<"EXPERT", "EXPERT", "HOST">>

\* A report without any role marker, with a blank line, was cut into HOST
\* segments, none for the blank line.
C33_WitnessNoMarker ==
    /\ sc_pc = "done"
    /\ sc_lines = <<<<"x">>, <<SP>>, <<HASH, HASH, SP, "t">>>>
    /\ [n \in DOMAIN sc_segments |-> sc_segments[n].speaker] = <<"HOST", "HOST">>

(***************************************************************************)
(* run_graph.py: get_recent_posts_for_analysis                             *)
(* analyze_ideas.py: get_recent_posts                                      *)
(***************************************************************************)
MaxConfigured == 2
MaxRows == 2
MaxLimit == 2

SubredditNames == {"r1", "r2"}

\* category=None, the default of both functions.
NoCategory == "None"

\* A category no subreddit is tagged with.
RequestedCategories == Categories \cup {"sport", NoCategory}

SubredditConfigs ==
    StringsUpTo([name : SubredditNames, category : Categories], MaxConfigured)

\* The rows of posts, ordered by fetched_at from the newest on; recent says
\* whether fetched_at is after the cutoff.
StoredRows ==
    StringsUpTo([subreddit : SubredditNames, recent : BOOLEAN], MaxRows)

\* [s["name"] for s in config["subreddits"] if s.get("category") == category]
TargetSubreddits(config, category) ==
    {config[i].name : i \in {j \in DOMAIN config : config[j].category = category}}

\* LIMIT ?
Limit(rows, limit) == SubSeq(rows, 1, Min(Len(rows), limit))

\* SELECT ... WHERE fetched_at > ? AND subreddit IN (...) ORDER BY
\* fetched_at DESC LIMIT ?
SelectRecentIn(rows, subreddits, limit) ==
    Limit(SelectSeq(rows, LAMBDA r : r.recent /\ r.subreddit \in subreddits), limit)

\* SELECT ... WHERE fetched_at > ? ORDER BY fetched_at DESC LIMIT ?
SelectRecent(rows, limit) ==
    Limit(SelectSeq(rows, LAMBDA r : r.recent), limit)

\* The pipeline's query falling back to the rows of every subreddit.
get_recent_posts_for_analysis_all(config, rows, limit, category) ==
    LET target_subreddits ==
            IF category # NoCategory THEN TargetSubreddits(config, category) ELSE {}
    IN  IF target_subreddits = {} THEN SelectRecent(rows, limit)
        ELSE SelectRecentIn(rows, target_subreddits, limit)

\* run_graph.py: without target subreddits the result is [], whether a
\* category was given or not.
get_recent_posts_for_analysis(config, rows, limit, category) ==
    LET target_subreddits ==
            IF category # NoCategory THEN TargetSubreddits(config, category) ELSE {}
    IN  IF target_subreddits = {} THEN <<>>
        ELSE SelectRecentIn(rows, target_subreddits, limit)

\* analyze_ideas.py: the test for no target subreddits is inside
\* "if category:", and without a category the query has no subreddit filter.
get_recent_posts(config, rows, limit, category) ==
    IF category # NoCategory
    THEN LET target_subreddits == TargetSubreddits(config, category)
         IN  IF target_subreddits = {} THEN <<>>
             ELSE SelectRecentIn(rows, target_subreddits, limit)
    ELSE SelectRecent(rows, limit)

\* The functions called so far.
Called(done) ==
    IF q_pc = "ready" THEN done
    ELSE IF q_pc = done THEN done
    ELSE "both"

QInit ==
    /\ q_config \in SubredditConfigs
    /\ q_rows \in StoredRows
    /\ q_limit \in 1..MaxLimit
    /\ q_category \in RequestedCategories
    /\ q_pipeline = <<>>
    /\ q_analyzer = <<>>
    /\ q_pc = "ready"

QQuiet ==
    /\ q_config = <<>>
    /\ q_rows = <<>>
    /\ q_limit = 1
    /\ q_category = NoCategory
    /\ q_pipeline = <<>>
    /\ q_analyzer = <<>>
    /\ q_pc = "idle"

\* The pipeline's function is called.
QPipeline ==
    /\ q_pc \in {"ready", "analyzer"}
    /\ q_pipeline' = get_recent_posts_for_analysis(q_config, q_rows, q_limit,
                                                   q_category)
    /\ q_pc' = Called("pipeline")
    /\ UNCHANGED <<q_config, q_rows, q_limit, q_category, q_analyzer>>
    /\ UNCHANGED otherThanQ

\* The standalone analyzer's function is called.
QAnalyzer ==
    /\ q_pc \in {"ready", "pipeline"}
    /\ q_analyzer' = get_recent_posts(q_config, q_rows, q_limit, q_category)
    /\ q_pc' = Called("analyzer")
    /\ UNCHANGED <<q_config, q_rows, q_limit, q_category, q_pipeline>>
    /\ UNCHANGED otherThanQ

QNext == QPipeline \/ QAnalyzer

BothCalled == q_pc = "both"

NoSourceTagged == TargetSubreddits(q_config, q_category) = {}

\* C34 as it is worded: without a source tagged with the category both
\* queries return the empty list, and they return the same for every
\* category value, the absent one included.
C34_SameQueryForEveryCategory ==
    BothCalled =>
        /\ NoSourceTagged => (q_pipeline = <<>> /\ q_analyzer = <<>>)
        /\ q_pipeline = q_analyzer

\* C34: for a category that is given, both queries return the same, and
\* the empty list when no source is tagged with it, never the items of all
\* sources; without a category the pipeline's query returns the empty list
\* and the standalone analyzer's the recent items of all sources.
C34_SameQueryForGivenCategory ==
    BothCalled =>
        /\ q_category # NoCategory =>
              /\ q_pipeline = q_analyzer
              /\ NoSourceTagged => q_pipeline = <<>>
              /\ \A n \in DOMAIN q_pipeline :
                    q_pipeline[n].subreddit \in TargetSubreddits(q_config, q_category)
        /\ q_category = NoCategory =>
              /\ q_pipeline = <<>>
              /\ q_analyzer = SelectRecent(q_rows, q_limit)

\* A category without a tagged source got the empty list from both queries
\* although the table holds recent rows.
C34_Witness ==
    /\ BothCalled
    /\ q_category = "sport"
    /\ q_config # <<>>
    /\ \E n \in DOMAIN q_rows : q_rows[n].recent
    /\ q_pipeline = <<>>
    /\ q_analyzer = <<>>

(***************************************************************************)
(* run_graph.py: main and process_category                                 *)
(***************************************************************************)
MaxChunks == 4
LongScriptChunks == 1001

\* The numbers of chunks a script may be cut into: few, or more than the
\* three digits of the clip file names can count.
ChunkCounts == (0..MaxChunks) \cup {LongScriptChunks}

\* The numbers of chunks the script and segmentation stages make of a
\* report: one per non-empty line and run of sentences. The two fixed texts
\* are one line that is one short sentence; an error message has at least
\* one line; the text of the provider is any text.
ChunkCountsOf(text) ==
    IF text \in {NoPostsText, FailedQuotaText} THEN {1}
    ELSE IF text = FailedErrorText THEN ChunkCounts \ {0}
    ELSE ChunkCounts

\* max_concurrent=3, the only concurrency limit of the repository.
DefaultMaxConcurrent == 3

\* asyncio.to_thread runs the calls on the default executor, which has
\* min(32, cpu_count + 4) worker threads: five on a one-processor host.
ExecutorWorkers == 5

\* f"segment_{index:03d}.mp3"
IndexPadWidth == 3

ReportPath(category) == <<"latest_analysis", category>>
ScriptPath(category) == <<"scripts/podcast_script", category>>
SegmentsPath(category) == <<"segments/segments", category>>
RawAudioDir(category) == <<"audio/raw", category>>
EpisodePath(category) == <<"episodes/episode", category>>

DigitChars == <<"0", "1", "2", "3", "4", "5", "6", "7", "8", "9">>

RECURSIVE Digits(_)
Digits(n) ==
    IF n < 10 THEN <<DigitChars[n + 1]>>
    ELSE Digits(n \div 10) \o <<DigitChars[(n % 10) + 1]>>

\* The format "03d": at least three digits, zero-padded on the left.
ZeroPad(digits, width) ==
    IF Len(digits) >= width THEN digits
    ELSE [i \in 1..(width - Len(digits)) |-> "0"] \o digits

SegmentFileName(index) ==
    <<"s", "e", "g", "m", "e", "n", "t", "_">>
        \o ZeroPad(Digits(index), IndexPadWidth)
        \o <<".", "m", "p", "3">>

\* Code points of the characters of a clip file name.
CharCode ==
    [c \in {".", "_", "e", "g", "m", "n", "p", "s", "t"} \cup Range(DigitChars) |->
        CASE c = "." -> 46
          [] c = "_" -> 95
          [] c = "e" -> 101
          [] c = "g" -> 103
          [] c = "m" -> 109
          [] c = "n" -> 110
          [] c = "p" -> 112
          [] c = "s" -> 115
          [] c = "t" -> 116
          [] OTHER -> 47 + CHOOSE d \in 1..10 : DigitChars[d] = c]

\* String comparison, as sorted() applies it to the paths of one directory.
RECURSIVE StrLessFrom(_, _, _)
StrLessFrom(a, b, i) ==
    IF i > Len(a) THEN i <= Len(b)
    ELSE IF i > Len(b) THEN FALSE
    ELSE IF a[i] = b[i] THEN StrLessFrom(a, b, i + 1)
    ELSE CharCode[a[i]] < CharCode[b[i]]

\* sorted(Path(raw_audio_dir).glob("*.mp3")) puts clip i before clip j.
SortsBefore(i, j) == StrLessFrom(SegmentFileName(i), SegmentFileName(j), 1)

\* The statements of process_category, in the order they are written.
NextStageUploadFirst(stage) ==
    CASE stage = "analyze" -> "image"
      [] stage = "image" -> "email"
      [] stage = "email" -> "script"
      [] stage = "script" -> "segment"
      [] stage = "segment" -> "synthesize"
      [] stage = "synthesize" -> "upload"
      [] stage = "upload" -> "postprod"
      [] stage = "postprod" -> "return"

NextStage(stage) ==
    CASE stage = "analyze" -> "image"
      [] stage = "image" -> "email"
      [] stage = "email" -> "script"
      [] stage = "script" -> "segment"
      [] stage = "segment" -> "synthesize"
      [] stage = "synthesize" -> "postprod"
      [] stage = "postprod" -> "upload"
      [] stage = "upload" -> "return"

\* What main keeps of the collection step.
CollectRun ==
    [branch_results |-> <<>>, reddit_image_enabled |-> cfg.reddit_image_enabled]

\* collect_run.copy() with current_category set: the branch state of a
\* category that shares collect_run itself.
BranchStateShared(category) ==
    ("current_category" :> category) @@ state

\* branch_state = collect_run.copy(); branch_state["current_category"] = category
BranchState(category) ==
    ("current_category" :> category) @@ CollectRun

Current == state.current_category

\* state.update(result)
Update(key, value) == (key :> value) @@ state

\* The causes that are a missing setting rather than a failure of a stage.
ConfigurationErrors ==
    {"ValueError: OPENAI_API_KEY not found in .env",
     "FileNotFoundError: config.json",
     "FileNotFoundError: podcast_config_advanced.json"}

\* An exception leaves the node, process_category and main: nothing catches it.
Raise(stage, cause) ==
    /\ pc' = "crashed"
    /\ exc' = [stage |-> stage, category |-> Current, cause |-> cause]
    /\ cat_status' = [cat_status EXCEPT ![Current] = "raised"]

\* An exception before the loop over the categories.
RaiseAtStartup(stage, cause) ==
    /\ pc' = "crashed"
    /\ exc' = [stage |-> stage, category |-> "", cause |-> cause]

Banner(stage) == Append(stdout, <<stage, Current>>)

MaxSubreddits == 2
MaxEarlierClips == 1

\* config["subreddits"], by the category of each entry.
SubredditLists == StringsUpTo(Categories, MaxSubreddits)

\* The orders in which list(set(...)) can hold the elements of a set.
Orderings(S) ==
    {s \in [1..Cardinality(S) -> S] : \A a, b \in DOMAIN s : a # b => s[a] # s[b]}

\* What earlier runs have left on disk for a category: the clips in its raw
\* directory, which no run removes, and whether a run of today has written
\* the files that carry today's date.
EarlierRuns ==
    {d \in [clips : 0..MaxEarlierClips, exported_today : BOOLEAN] :
        d.exported_today => d.clips >= 1}

NoEarlierRun == [clips |-> 0, exported_today |-> FALSE]

FilesOfEarlierRun(category, earlier) ==
    IF earlier.exported_today
    THEN {ReportPath(category), ScriptPath(category), SegmentsPath(category),
          EpisodePath(category)}
    ELSE IF earlier.clips > 0 THEN {ReportPath(category)} ELSE {}

\* The start of run_graph.py on a disk that holds what earlier runs left.
PipeInitOn(disk) ==
    /\ categories = <<>>
    /\ cat_idx = 1
    /\ pc = "import"
    /\ state = CollectRun
    /\ stdout = <<>>
    /\ files = UNION {FilesOfEarlierRun(c, disk[c]) : c \in Categories}
    /\ segments_len = [c \in Categories |-> 0]
    /\ raw_clips = [c \in Categories |-> disk[c].clips]
    /\ episode_clips = [c \in Categories |->
                           IF disk[c].exported_today THEN disk[c].clips ELSE 0]
    /\ tts_queued = 0
    /\ tts_running = 0
    /\ tts_done = 0
    /\ email_result = "none"
    /\ upload_result = "none"
    /\ uploaded = {}
    /\ cat_status = [c \in Categories |-> "pending"]
    /\ exc = [stage |-> "", category |-> "", cause |-> ""]
    /\ analysis = ""

\* The first run on an empty disk, with any settings.
PipeInit ==
    /\ cfg \in [openai_api_key : BOOLEAN, config_json : BOOLEAN,
                subreddits : SubredditLists, reddit_image_enabled : BOOLEAN,
                recipient_email : BOOLEAN, podcast_config : BOOLEAN]
    /\ PipeInitOn([c \in Categories |-> NoEarlierRun])

\* A run with every setting present, after earlier runs.
PipeInitLaterRun ==
    /\ cfg = [openai_api_key |-> TRUE, config_json |-> TRUE,
              subreddits |-> <<"ia", "business">>, reddit_image_enabled |-> TRUE,
              recipient_email |-> TRUE, podcast_config |-> TRUE]
    /\ \E disk \in [Categories -> EarlierRuns] : PipeInitOn(disk)

PipeQuiet ==
    /\ cfg = [openai_api_key |-> FALSE, config_json |-> FALSE,
              subreddits |-> <<>>, reddit_image_enabled |-> FALSE,
              recipient_email |-> FALSE, podcast_config |-> FALSE]
    /\ categories = <<>>
    /\ cat_idx = 1
    /\ pc = "idle"
    /\ state = CollectRun
    /\ stdout = <<>>
    /\ files = {}
    /\ segments_len = [c \in Categories |-> 0]
    /\ raw_clips = [c \in Categories |-> 0]
    /\ episode_clips = [c \in Categories |-> 0]
    /\ tts_queued = 0
    /\ tts_running = 0
    /\ tts_done = 0
    /\ email_result = "none"
    /\ upload_result = "none"
    /\ uploaded = {}
    /\ cat_status = [c \in Categories |-> "pending"]
    /\ exc = [stage |-> "", category |-> "", cause |-> ""]
    /\ analysis = ""

\* The module body of run_graph.py: without OPENAI_API_KEY the import raises.
\* GOOGLE_API_KEY is handed to genai.configure as it is, unset or not.
Import ==
    /\ pc = "import"
    /\ IF ~cfg.openai_api_key
       THEN RaiseAtStartup("import", "ValueError: OPENAI_API_KEY not found in .env")
       ELSE /\ pc' = "main"
            /\ UNCHANGED exc
    /\ UNCHANGED <<cfg, categories, cat_idx, state, stdout, files, segments_len,
                   raw_clips, episode_clips, tts_queued, tts_running, tts_done,
                   email_result, upload_result, uploaded, cat_status, analysis>>
    /\ UNCHANGED otherThanPipe

\* main: config.json is opened and read before the collection is run.
MainLoadConfig ==
    /\ pc = "main"
    /\ IF ~cfg.config_json
       THEN RaiseAtStartup("main", "FileNotFoundError: config.json")
       ELSE /\ pc' = "collect"
            /\ UNCHANGED exc
    /\ UNCHANGED <<cfg, categories, cat_idx, state, stdout, files, segments_len,
                   raw_clips, episode_clips, tts_queued, tts_running, tts_done,
                   email_result, upload_result, uploaded, cat_status, analysis>>
    /\ UNCHANGED otherThanPipe

\* app.invoke runs collect_data_node: the feeds are fetched and saved, and
\* the categories are list(set(...)) of the categories of the subreddits.
CollectData ==
    /\ pc = "collect"
    /\ stdout' = Append(stdout, <<"collect", "">>)
    /\ categories' \in Orderings(Range(cfg.subreddits))
    /\ pc' = "main_loop"
    /\ UNCHANGED <<cfg, cat_idx, state, files, segments_len, raw_clips,
                   episode_clips, tts_queued, tts_running, tts_done, email_result,
                   upload_result, uploaded, cat_status, exc, analysis>>
    /\ UNCHANGED otherThanPipe

\* main: the next iteration of "for category in categories" copies the
\* collection state into a new branch state and calls process_category.
MainNextCategory ==
    /\ pc = "main_loop"
    /\ cat_idx <= Len(categories)
    /\ state' = BranchState(categories[cat_idx])
    /\ cat_status' = [cat_status EXCEPT ![categories[cat_idx]] = "running"]
    /\ email_result' = "none"
    /\ upload_result' = "none"
    /\ uploaded' = {}
    /\ analysis' = ""
    /\ pc' = "analyze"
    /\ UNCHANGED <<cfg, categories, cat_idx, stdout, files, segments_len, raw_clips,
                   episode_clips, tts_queued, tts_running, tts_done, exc>>
    /\ UNCHANGED otherThanPipe

\* main: the loop is over.
MainDone ==
    /\ pc = "main_loop"
    /\ cat_idx > Len(categories)
    /\ pc' = "done"
    /\ UNCHANGED <<cfg, categories, cat_idx, state, stdout, files, segments_len,
                   raw_clips, episode_clips, tts_queued, tts_running, tts_done,
                   email_result, upload_result, uploaded, cat_status, exc>>
    /\ UNCHANGED analysis
    /\ UNCHANGED otherThanPipe

\* analyze_ideas_node up to its call of run_analysis: the recent posts of
\* the category are read from the store and handed to run_analysis.
Analyze ==
    /\ pc = "analyze"
    /\ stdout' = Banner("analyze")
    /\ an_posts' \in PostLists
    /\ an_category' = Current
    /\ an_attempt' = 0
    /\ an_events' = <<>>
    /\ an_slept' = 0
    /\ an_result' = ""
    /\ an_pc' = "start"
    /\ pc' = "run_analysis"
    /\ UNCHANGED <<cfg, categories, cat_idx, state, files, segments_len, raw_clips,
                   episode_clips, tts_queued, tts_running, tts_done, email_result,
                   upload_result, uploaded, cat_status, exc, analysis>>
    /\ UNCHANGED otherThanPipeAndAn

\* analyze_ideas_node after run_analysis has returned: whatever text it
\* returned is written to the report file, and the path is recorded.
AnalyzeWrite ==
    /\ pc = "run_analysis"
    /\ an_pc = "done"
    /\ analysis' = an_result
    /\ files' = files \cup {ReportPath(Current)}
    /\ state' = Update("analysis_report_path", ReportPath(Current))
    /\ pc' = NextStage("analyze")
    /\ an_posts' = <<>>
    /\ an_category' = ""
    /\ an_attempt' = 0
    /\ an_events' = <<>>
    /\ an_slept' = 0
    /\ an_result' = ""
    /\ an_pc' = "idle"
    /\ UNCHANGED <<cfg, categories, cat_idx, stdout, segments_len, raw_clips,
                   episode_clips, tts_queued, tts_running, tts_done, email_result,
                   upload_result, uploaded, cat_status, exc>>
    /\ UNCHANGED otherThanPipeAndAn

\* The environment removes the report file before the script stage reads it.
ReportRemoved ==
    /\ pc \in {"image", "email", "script"}
    /\ ReportPath(Current) \in files
    /\ files' = files \ {ReportPath(Current)}
    /\ UNCHANGED <<cfg, categories, cat_idx, pc, state, stdout, segments_len,
                   raw_clips, episode_clips, tts_queued, tts_running, tts_done,
                   email_result, upload_result, uploaded, cat_status, exc>>
    /\ UNCHANGED analysis
    /\ UNCHANGED otherThanPipe

\* The image step: run when enabled; any error in it is printed and dropped.
Image ==
    /\ pc = "image"
    /\ stdout' = IF state.reddit_image_enabled THEN Banner("image") ELSE stdout
    /\ pc' = NextStage("image")
    /\ UNCHANGED <<cfg, categories, cat_idx, state, files, segments_len, raw_clips,
                   episode_clips, tts_queued, tts_running, tts_done, email_result,
                   upload_result, uploaded, cat_status, exc>>
    /\ UNCHANGED analysis
    /\ UNCHANGED otherThanPipe

\* send_email_node: skipped without a recipient or without the report file;
\* an error of the SMTP exchange is printed and dropped.
Email ==
    /\ pc = "email"
    /\ stdout' = Banner("email")
    /\ IF ~cfg.recipient_email \/ state.analysis_report_path \notin files
       THEN email_result' = "skipped"
       ELSE \E sent \in BOOLEAN : email_result' = IF sent THEN "sent" ELSE "failed"
    /\ pc' = NextStage("email")
    /\ UNCHANGED <<cfg, categories, cat_idx, state, files, segments_len, raw_clips,
                   episode_clips, tts_queued, tts_running, tts_done, upload_result,
                   uploaded, cat_status, exc>>
    /\ UNCHANGED analysis
    /\ UNCHANGED otherThanPipe

\* generate_podcast_script_node: raises when the report is missing, and when
\* podcast_config_advanced.json cannot be read; else writes the script.
Script ==
    /\ pc = "script"
    /\ stdout' = Banner("script")
    /\ IF state.analysis_report_path \notin files
       THEN /\ Raise("script", "FileNotFoundError: analysis report")
            /\ UNCHANGED <<files, state>>
       ELSE IF ~cfg.podcast_config
       THEN /\ Raise("script", "FileNotFoundError: podcast_config_advanced.json")
            /\ UNCHANGED <<files, state>>
       ELSE /\ files' = files \cup {ScriptPath(Current)}
            /\ state' = Update("podcast_script_path", ScriptPath(Current))
            /\ pc' = NextStage("script")
            /\ UNCHANGED <<cat_status, exc>>
    /\ UNCHANGED <<cfg, categories, cat_idx, segments_len, raw_clips, episode_clips,
                   tts_queued, tts_running, tts_done, email_result, upload_result,
                   uploaded>>
    /\ UNCHANGED analysis
    /\ UNCHANGED otherThanPipe

\* semantic_segmentation_node: raises when the tokenizer data cannot be
\* loaded; else writes the chunks of the script to the segments file.
Segment ==
    /\ pc = "segment"
    /\ stdout' = Banner("segment")
    /\ \E punkt \in BOOLEAN :
         IF ~punkt
         THEN /\ Raise("segment", "LookupError: punkt")
              /\ UNCHANGED <<files, state, segments_len>>
         ELSE /\ \E n \in ChunkCountsOf(analysis) :
                    segments_len' = [segments_len EXCEPT ![Current] = n]
              /\ files' = files \cup {SegmentsPath(Current)}
              /\ state' = Update("segmented_script_path", SegmentsPath(Current))
              /\ pc' = NextStage("segment")
              /\ UNCHANGED <<cat_status, exc>>
    /\ UNCHANGED <<cfg, categories, cat_idx, raw_clips, episode_clips, tts_queued,
                   tts_running, tts_done, email_result, upload_result, uploaded>>
    /\ UNCHANGED analysis
    /\ UNCHANGED otherThanPipe

\* synthesize_podcast_audio_node up to the gather: one task per segment, all
\* handed to one gather; each call takes a worker thread or waits for one.
SynthStart ==
    /\ pc = "synthesize"
    /\ stdout' = Banner("synthesize")
    /\ LET n == segments_len[Current]
       IN  /\ tts_running' = Min(n, ExecutorWorkers)
           /\ tts_queued' = n - Min(n, ExecutorWorkers)
    /\ tts_done' = 0
    /\ pc' = "gather"
    /\ UNCHANGED <<cfg, categories, cat_idx, state, files, segments_len, raw_clips,
                   episode_clips, email_result, upload_result, uploaded, cat_status,
                   exc>>
    /\ UNCHANGED analysis
    /\ UNCHANGED otherThanPipe

\* One synthesis call resolves: its clip is written and a waiting call takes
\* the thread, or the call raises, and gather raises with it.
SynthResolve ==
    /\ pc = "gather"
    /\ tts_running > 0
    /\ \E ok \in BOOLEAN :
         IF ok
         THEN /\ tts_done' = tts_done + 1
              /\ IF tts_queued > 0
                 THEN /\ tts_queued' = tts_queued - 1
                      /\ UNCHANGED tts_running
                 ELSE /\ tts_running' = tts_running - 1
                      /\ UNCHANGED tts_queued
              /\ UNCHANGED <<pc, cat_status, exc>>
         ELSE /\ Raise("synthesize", "speech synthesis error")
              /\ UNCHANGED <<tts_queued, tts_running, tts_done>>
    /\ UNCHANGED <<cfg, categories, cat_idx, state, stdout, files, segments_len,
                   raw_clips, episode_clips, email_result, upload_result, uploaded>>
    /\ UNCHANGED analysis
    /\ UNCHANGED otherThanPipe

\* gather returns when every call has resolved: the raw directory holds the
\* clips segment_000.mp3 ... of this run (a longer earlier run's clips stay).
SynthReturn ==
    /\ pc = "gather"
    /\ tts_running = 0
    /\ tts_queued = 0
    /\ raw_clips' = [raw_clips EXCEPT ![Current] = Max(@, tts_done)]
    /\ state' = Update("raw_audio_dir", RawAudioDir(Current))
    /\ tts_done' = 0
    /\ pc' = NextStage("synthesize")
    /\ UNCHANGED <<cfg, categories, cat_idx, stdout, files, segments_len,
                   episode_clips, tts_queued, tts_running, email_result,
                   upload_result, uploaded, cat_status, exc>>
    /\ UNCHANGED analysis
    /\ UNCHANGED otherThanPipe

\* audio_postproduction_node: without clips it prints a notice and returns
\* nothing; else it joins the sorted clips and exports the episode, and an
\* error of the decoding or of the export raises.
Postprod ==
    /\ pc = "postprod"
    /\ stdout' = Banner("postprod")
    /\ IF raw_clips[Current] = 0
       THEN /\ pc' = NextStage("postprod")
            /\ UNCHANGED <<state, files, episode_clips, cat_status, exc>>
       ELSE \E ok \in BOOLEAN :
              IF ok
              THEN /\ episode_clips' =
                         [episode_clips EXCEPT ![Current] = raw_clips[Current]]
                   /\ files' = files \cup {EpisodePath(Current)}
                   /\ state' = Update("final_episode_path", EpisodePath(Current))
                   /\ pc' = NextStage("postprod")
                   /\ UNCHANGED <<cat_status, exc>>
              ELSE /\ Raise("postprod", "audio export error")
                   /\ UNCHANGED <<state, files, episode_clips>>
    /\ UNCHANGED <<cfg, categories, cat_idx, segments_len, raw_clips, tts_queued,
                   tts_running, tts_done, email_result, upload_result, uploaded>>
    /\ UNCHANGED analysis
    /\ UNCHANGED otherThanPipe

\* The artifacts upload_to_drive_node uploads, in its order: those whose
\* path the branch state holds.
UploadPlan ==
    SelectSeq(<<"analysis_report_path", "podcast_script_path",
                "segmented_script_path", "final_episode_path">>,
              LAMBDA key : key \in DOMAIN state)

\* upload_to_drive_node: get_drive_service is called outside the try, so an
\* exception of it leaves the node; without a service the upload is skipped;
\* an error of the folder set-up or of an upload ends the uploads, printed.
Upload ==
    /\ pc = "upload"
    /\ stdout' = Banner("upload")
    /\ \E service \in {"service", "none", "raises"} :
         CASE service = "raises" ->
                /\ Raise("upload", "get_drive_service")
                /\ UNCHANGED <<upload_result, uploaded>>
           [] service = "none" ->
                /\ upload_result' = "skipped"
                /\ pc' = NextStage("upload")
                /\ UNCHANGED <<uploaded, cat_status, exc>>
           [] service = "service" ->
                /\ \E k \in 0..Len(UploadPlan) :
                     /\ uploaded' = {state[UploadPlan[i]] : i \in 1..k} \cap files
                     /\ upload_result' =
                            IF k = Len(UploadPlan) THEN "complete" ELSE "failed"
                /\ pc' = NextStage("upload")
                /\ UNCHANGED <<cat_status, exc>>
    /\ UNCHANGED <<cfg, categories, cat_idx, state, files, segments_len, raw_clips,
                   episode_clips, tts_queued, tts_running, tts_done, email_result>>
    /\ UNCHANGED analysis
    /\ UNCHANGED otherThanPipe

\* process_category returns {"branch_results": [..., "Success: <category>"]};
\* main does not keep the value and goes on with the next category.
Return ==
    /\ pc = "return"
    /\ cat_status' = [cat_status EXCEPT ![Current] = "Success"]
    /\ cat_idx' = cat_idx + 1
    /\ pc' = "main_loop"
    /\ UNCHANGED <<cfg, categories, state, stdout, files, segments_len, raw_clips,
                   episode_clips, tts_queued, tts_running, tts_done, email_result,
                   upload_result, uploaded, exc>>
    /\ UNCHANGED analysis
    /\ UNCHANGED otherThanPipe

Next ==
    \/ Import
    \/ MainLoadConfig
    \/ CollectData
    \/ MainNextCategory
    \/ MainDone
    \/ Analyze
    \/ AnStart
    \/ AnGenerate
    \/ AnSleep
    \/ AnExhausted
    \/ AnalyzeWrite
    \/ ReportRemoved
    \/ Image
    \/ Email
    \/ Script
    \/ Segment
    \/ SynthStart
    \/ SynthResolve
    \/ SynthReturn
    \/ Postprod
    \/ Upload
    \/ Return

\* The stages whose banner has been printed for a category, in order.
StagesOf(category) ==
    LET lines == SelectSeq(stdout, LAMBDA e : e[2] = category)
    IN  [i \in 1..Len(lines) |-> lines[i][1]]

IsPrefix(a, b) == Len(a) <= Len(b) /\ a = SubSeq(b, 1, Len(a))

\* The stages of one category in the order process_category runs them.
ExpectedStages ==
    IF cfg.reddit_image_enabled
    THEN <<"analyze", "image", "email", "script", "segment", "synthesize",
           "postprod", "upload">>
    ELSE <<"analyze", "email", "script", "segment", "synthesize",
           "postprod", "upload">>

InCategory == "current_category" \in DOMAIN state

\* A stage runs only when the stage before it has put its output into the
\* branch state, and synthesis calls are in flight only inside synthesis.
StageInputsRecorded ==
    /\ pc \in {"image", "email", "script"} => "analysis_report_path" \in DOMAIN state
    /\ pc = "segment" => "podcast_script_path" \in DOMAIN state
    /\ pc \in {"synthesize", "gather"} => "segmented_script_path" \in DOMAIN state
    /\ pc = "postprod" => "raw_audio_dir" \in DOMAIN state
    /\ pc = "upload" => <<"postprod", Current>> \in Range(stdout)
    /\ tts_running + tts_queued > 0 => pc \in {"gather", "crashed"}

\* A delivery action (a mail handed to SMTP, a Drive upload) of the category
\* being processed happens only once its episode file exists.
NoDeliveryBeforeAssembly ==
    (\/ email_result \in {"sent", "failed"}
     \/ upload_result \in {"complete", "failed"})
        => EpisodePath(Current) \in files

C1_FailureIsolation ==
    /\ ~(/\ pc = "crashed"
         /\ exc.stage \in {"script", "segment", "synthesize", "postprod"}
         /\ exc.cause \notin ConfigurationErrors)
    /\ pc = "done" => \A c \in Categories : cat_status[c] \in {"Success", "Failed"}

\* The clips the pipeline joins into an episode are in chunk order: the
\* sorted file list puts the clip of chunk i before that of chunk j for i < j.
PipelineClipOrderPreserved ==
    \A c \in Categories :
        \A i \in 0..(episode_clips[c] - 1) :
            \A j \in (i + 1)..(episode_clips[c] - 1) : SortsBefore(i, j)

\* C6: the clip list of the scheduler, and the clip files the pipeline
\* joins, are in input chunk order whatever the completion order.
C6_OrderPreserved ==
    /\ SchedulerOrderPreserved
    /\ PipelineClipOrderPreserved

\* The synthesis stage of the pipeline never has more calls in flight than
\* the concurrency limit.
PipelineBounded == tts_running <= DefaultMaxConcurrent

\* C7: at most concurrency_limit synthesis calls are in flight, batch after
\* batch, in the standalone scheduler and in the pipeline's synthesis stage.
C7_BoundedConcurrency ==
    /\ SchedulerBounded
    /\ PipelineBounded

\* C9: a category without a single clip is not reported as a success, and
\* an episode is assembled only from at least one clip.
C9_NoAudioIsFailure ==
    \A c \in Categories :
        /\ cat_status[c] = "Success" => raw_clips[c] >= 1
        /\ EpisodePath(c) \in files => episode_clips[c] >= 1

\* C10: no failure of a delivery action (mail, Drive service, folders,
\* upload) leaves the category pipeline or fails the category.
C10_DeliveryBestEffort ==
    /\ ~(pc = "crashed" /\ exc.stage \in {"email", "upload"})
    /\ (pc = "main_loop" /\ InCategory) => cat_status[Current] = "Success"

\* The script stage found no report file at the recorded path.
ScriptStageFoundNoReport ==
    /\ exc.stage = "script"
    /\ exc.cause = "FileNotFoundError: analysis report"

\* C11: when the report is missing as the script stage starts, the category
\* ends failed without a script, segments, clips or an episode, and the run
\* goes on with the other categories.
C11_MissingReportFailsCategoryOnly ==
    ScriptStageFoundNoReport =>
        /\ pc # "crashed"
        /\ cat_status[exc.category] = "Failed"
        /\ {ScriptPath(exc.category), SegmentsPath(exc.category),
            EpisodePath(exc.category)} \cap files = {}
        /\ raw_clips[exc.category] = 0

\* process_category's return value: the branch results it was given plus
\* one entry for its own category.
ReturnValue ==
    [branch_results |-> Append(state.branch_results, <<"Success", Current>>)]

\* The results main holds once its loop is over: the return values of
\* process_category are dropped, the branch state keeps the list it was
\* copied with.
RunResult == state.branch_results

\* C12: when the run ends, its result holds exactly one terminal status for
\* every category of the run.
C12_ResultCoversEveryCategory ==
    pc = "done" =>
        \A i \in DOMAIN categories :
            Cardinality({j \in DOMAIN RunResult :
                            /\ RunResult[j][2] = categories[i]
                            /\ RunResult[j][1] \in {"Success", "Failed"}}) = 1

\* The texts run_analysis returns when text generation failed.
AnalysisFailedTexts == {FailedErrorText, FailedQuotaText}

\* C14: when text generation fails, the category is marked failed at the
\* analysis stage and no report, script, segments or audio come of it.
C14_AnalysisFailureSurfaces ==
    (InCategory /\ analysis \in AnalysisFailedTexts) =>
        /\ {ReportPath(Current), ScriptPath(Current), SegmentsPath(Current),
            EpisodePath(Current)} \cap files = {}
        /\ pc \notin {"image", "email", "script", "segment", "synthesize",
                      "gather", "postprod", "upload", "return"}
        /\ cat_status[Current] # "Success"

\* C21: without items the analysis is the fixed "no recent items" text,
\* made without a call of the text-generation provider, and the category
\* that has this report ends its pipeline with a report and an episode of
\* its one chunk, the run going on.
C21_ZeroItemsNotAnError ==
    /\ (an_pc = "done" /\ an_posts = <<>>)
          => (an_result = NoPostsText /\ AnCalls = {})
    /\ (InCategory /\ analysis = NoPostsText) =>
          /\ pc \in {"synthesize", "gather", "postprod", "upload", "return"}
                => segments_len[Current] = 1
          /\ cat_status[Current] = "Success" =>
                /\ pc \in {"main_loop", "done"}
                /\ EpisodePath(Current) \in files
                /\ episode_clips[Current] >= 1

\* The run is over, and its last category had no items.
C21_Witness ==
    /\ pc = "done"
    /\ analysis = NoPostsText
    /\ cat_status[Current] = "Success"
    /\ episode_clips[Current] = 1

\* How often the banner of the collection has been printed.
Collections == Len(SelectSeq(stdout, LAMBDA e : e[1] = "collect"))

\* How many pipelines have been started for a category: process_category
\* prints the banner of its first stage once per call.
PipelinesOf(category) ==
    Len(SelectSeq(stdout, LAMBDA e : e = <<"analyze", category>>))

\* The categories for which a pipeline has been started, in that order.
PipelineOrder ==
    LET started == SelectSeq(stdout, LAMBDA e : e[1] = "analyze")
    IN  [i \in 1..Len(started) |-> started[i][2]]

\* The run has ended, and not for a missing setting.
RunEnded ==
    \/ pc = "done"
    \/ pc = "crashed" /\ exc.cause \notin ConfigurationErrors

\* The collection runs once and before every stage; the category list is
\* the distinct categories of the configuration, each once; the pipelines
\* are started in the order of that list, at most one per category.
CollectOnceThenPipelines ==
    /\ Collections <= 1
    /\ stdout # <<>> => stdout[1] = <<"collect", "">>
    /\ pc \in {"import", "main", "collect"} => stdout = <<>>
    /\ Collections = 0 => categories = <<>>
    /\ Collections = 1 =>
          /\ categories \in Orderings(Range(cfg.subreddits))
          /\ IsPrefix(PipelineOrder, categories)
    /\ \A c \in Categories : PipelinesOf(c) <= 1

\* C22: the collection is run exactly once, before every category stage;
\* the category list holds each distinct category of the configuration
\* once and stays as it is; and when the run has ended, exactly one
\* pipeline has been executed for each category of the list.
C22_CollectOnceOnePipelinePerCategory ==
    /\ CollectOnceThenPipelines
    /\ (RunEnded /\ Collections = 1) =>
          \A c \in Range(categories) : PipelinesOf(c) = 1

\* C23: a run that stops for a missing setting has run nothing before:
\* neither the collection nor a stage of a category.
C23_ConfigurationErrorsAtStartup ==
    (pc = "crashed" /\ exc.cause \in ConfigurationErrors) => stdout = <<>>

\* The keys of the branch state that hold the path of an artifact.
PathKeys ==
    {"analysis_report_path", "podcast_script_path", "segmented_script_path",
     "raw_audio_dir", "final_episode_path"}

ArtifactsOf(category) ==
    {ReportPath(category), ScriptPath(category), SegmentsPath(category),
     EpisodePath(category)}

\* A pipeline is running: process_category has been called and has not
\* returned.
PipelineRunning ==
    /\ InCategory
    /\ pc \notin {"import", "main", "collect", "main_loop", "done", "crashed",
                  "idle"}

\* The branch state holds paths of its own category only, and a new branch
\* state holds none.
OwnBranchState ==
    InCategory =>
        /\ \A key \in PathKeys \cap DOMAIN state : state[key][2] = Current
        /\ pc = "analyze" => PathKeys \cap DOMAIN state = {}

\* A step of the running pipeline leaves the files, clips, episode and
\* status of every other category as they are.
OtherCategoriesUnchanged ==
    PipelineRunning =>
        \A c \in Categories \ {Current} :
            /\ files' \cap ArtifactsOf(c) = files \cap ArtifactsOf(c)
            /\ segments_len'[c] = segments_len[c]
            /\ raw_clips'[c] = raw_clips[c]
            /\ episode_clips'[c] = episode_clips[c]
            /\ cat_status'[c] = cat_status[c]

\* C24: every step of the pipeline of a category changes its own branch
\* state and artifacts only; the branch state of a category holds nothing
\* of another one, and the artifacts of the other categories stay as they
\* are, in whichever order the categories are processed.
C24_NoSharedState ==
    /\ []OwnBranchState
    /\ [][OtherCategoriesUnchanged]_vars

\* The second pipeline has written all its artifacts next to those of the
\* first one.
C24_Witness ==
    /\ pc = "upload"
    /\ cat_idx = 2
    /\ \A c \in Categories : ArtifactsOf(c) \subseteq files
    /\ PathKeys \subseteq DOMAIN state

\* The assembly stage of this run has exported the episode of the category
\* being processed.
AssembledNow == PipelineRunning /\ "final_episode_path" \in DOMAIN state

\* C25: the episode of this run is made of the clips of this run's chunks,
\* one per chunk and in chunk order, whatever earlier runs have left.
C25_VoiceTrackOfThisRun ==
    AssembledNow =>
        /\ episode_clips[Current] = segments_len[Current]
        /\ \A i \in 0..(episode_clips[Current] - 1) :
               \A j \in (i + 1)..(episode_clips[Current] - 1) : SortsBefore(i, j)

\* C28: when the run has completed, every category of the configuration
\* has its report file and an episode file.
C28_ReportAndEpisodePerCategory ==
    pc = "done" =>
        \A c \in Range(cfg.subreddits) :
            /\ ReportPath(c) \in files
            /\ EpisodePath(c) \in files

\* This step writes the episode file of the category.
ExportsEpisode(category) ==
    /\ PipelineRunning
    /\ Current = category
    /\ "final_episode_path" \notin DOMAIN state
    /\ "final_episode_path" \in DOMAIN state'

\* C29: an episode file that exists is not written again, removed or
\* changed by any later step: not by a later stage, not by the pipeline of
\* another category, not by a later run for the same category.
C29_EpisodeImmutable ==
    [][\A c \in Categories :
          EpisodePath(c) \in files =>
              /\ ~ExportsEpisode(c)
              /\ EpisodePath(c) \in files'
              /\ episode_clips'[c] = episode_clips[c]]_vars

\* The pipeline of every category of the list has been run and has come to
\* its end, as a success or as a failure that was caught.
EveryPipelineEnded ==
    /\ cat_idx > Len(categories)
    /\ \A i \in 1..Len(categories) :
          cat_status[categories[i]] \in {"Success", "Failed"}

\* The run is over, whichever way.
RunOver == pc \in {"done", "crashed"}

\* The run ends only after the pipeline of its last category.
FinishesAfterLastCategory == RunEnded => EveryPipelineEnded

\* Whatever the external calls do, the run comes to an end.
RunTerminates == <>RunOver

\* A pipeline that runs comes to an end.
PipelineTerminates == PipelineRunning ~> ~PipelineRunning

\* C37: provided every external call returns or raises, each started
\* category pipeline eventually reaches a terminal state, and the run
\* eventually finishes after the last category.
C37_EveryPipelineTerminates ==
    /\ []FinishesAfterLastCategory
    /\ PipelineTerminates
    /\ RunTerminates

(***************************************************************************)
(* Specifications                                                          *)
(***************************************************************************)
\* The segmenter called on its own.
InitSegmenter ==
    /\ SegInit
    /\ SynQuiet
    /\ PipeQuiet
    /\ AnQuiet
    /\ DbQuiet
    /\ ApQuiet
    /\ VcQuiet
    /\ CsQuiet
    /\ ScQuiet
    /\ QQuiet

SpecSegmenter == InitSegmenter /\ [][SegNext]_vars

\* The scheduler called on its own.
InitScheduler ==
    /\ SynInit
    /\ SegQuiet
    /\ PipeQuiet
    /\ AnQuiet
    /\ DbQuiet
    /\ ApQuiet
    /\ VcQuiet
    /\ CsQuiet
    /\ ScQuiet
    /\ QQuiet

SpecScheduler == InitScheduler /\ [][SynNext]_vars

\* Every call of a batch resolves: the event loop runs every task it holds,
\* and the client call returns or raises.
SpecSchedulerLive == SpecScheduler /\ WF_vars(SynNext)

\* A run of main over the categories of the configuration.
Init ==
    /\ PipeInit
    /\ SegQuiet
    /\ SynQuiet
    /\ AnQuiet
    /\ DbQuiet
    /\ ApQuiet
    /\ VcQuiet
    /\ CsQuiet
    /\ ScQuiet
    /\ QQuiet

Spec == Init /\ [][Next]_vars

\* Every external call returns or raises, and main is the only thread of
\* control: a step that can be taken is taken.
SpecLive == Spec /\ WF_vars(Next)

\* A run of main with every setting present, on a disk that earlier runs
\* have written to.
InitLaterRun ==
    /\ PipeInitLaterRun
    /\ SegQuiet
    /\ SynQuiet
    /\ AnQuiet
    /\ DbQuiet
    /\ ApQuiet
    /\ VcQuiet
    /\ CsQuiet
    /\ ScQuiet
    /\ QQuiet

SpecLaterRun == InitLaterRun /\ [][Next]_vars

\* run_analysis called on its own.
InitAnalysis ==
    /\ AnInit
    /\ SegQuiet
    /\ SynQuiet
    /\ PipeQuiet
    /\ DbQuiet
    /\ ApQuiet
    /\ VcQuiet
    /\ CsQuiet
    /\ ScQuiet
    /\ QQuiet

SpecAnalysis == InitAnalysis /\ [][AnNext]_vars

\* The same, every call of the provider and every sleep returning.
SpecAnalysisLive == SpecAnalysis /\ WF_vars(AnNext)

\* save_posts called on the posts of one feed after another.
InitStore ==
    /\ DbInit
    /\ SegQuiet
    /\ SynQuiet
    /\ PipeQuiet
    /\ AnQuiet
    /\ ApQuiet
    /\ VcQuiet
    /\ CsQuiet
    /\ ScQuiet
    /\ QQuiet

SpecStore == InitStore /\ [][DbNext]_vars

\* The assembly of one episode, by the standalone assembler or by the
\* pipeline's node.
InitAssembler ==
    /\ ApInit
    /\ SegQuiet
    /\ SynQuiet
    /\ PipeQuiet
    /\ AnQuiet
    /\ DbQuiet
    /\ VcQuiet
    /\ CsQuiet
    /\ ScQuiet
    /\ QQuiet

SpecAssembler == InitAssembler /\ [][ApNext]_vars

\* The assembly is straight-line code on values in memory: a step that can
\* be taken is taken.
SpecAssemblerLive == SpecAssembler /\ WF_vars(ApNext)

\* The choice of a voice for one segment, by the scheduler and by the node.
InitVoice ==
    /\ VcInit
    /\ SegQuiet
    /\ SynQuiet
    /\ PipeQuiet
    /\ AnQuiet
    /\ DbQuiet
    /\ ApQuiet
    /\ CsQuiet
    /\ ScQuiet
    /\ QQuiet

SpecVoice == InitVoice /\ [][VcNext]_vars

\* create_segments called on its own.
InitCreateSegments ==
    /\ CsInit
    /\ SegQuiet
    /\ SynQuiet
    /\ PipeQuiet
    /\ AnQuiet
    /\ DbQuiet
    /\ ApQuiet
    /\ VcQuiet
    /\ ScQuiet
    /\ QQuiet

SpecCreateSegments == InitCreateSegments /\ [][CsNext]_vars

\* The parsing of a report into the segments of a script.
InitScript ==
    /\ ScInit
    /\ SegQuiet
    /\ SynQuiet
    /\ PipeQuiet
    /\ AnQuiet
    /\ DbQuiet
    /\ ApQuiet
    /\ VcQuiet
    /\ CsQuiet
    /\ QQuiet

SpecScript == InitScript /\ [][ScNext]_vars

\* The two queries of the recent posts, called on the same table.
InitQuery ==
    /\ QInit
    /\ SegQuiet
    /\ SynQuiet
    /\ PipeQuiet
    /\ AnQuiet
    /\ DbQuiet
    /\ ApQuiet
    /\ VcQuiet
    /\ CsQuiet
    /\ ScQuiet

SpecQuery == InitQuery /\ [][QNext]_vars

====
